---- MODULE Spec2Model ----
(***************************************************************************)
(* pg-objects: a declarative reconciler for PostgreSQL cluster objects.    *)
(* The model follows src/pg_objects/setup.py (Setup, ServerState), the     *)
(* object classes of src/pg_objects/objects/, graph.py, statements.py and  *)
(* connection.py.                                                          *)
(***************************************************************************)
EXTENDS Integers, Sequences, FiniteSets, TLC

\* Python's None for an optional string attribute (owner, schema, database tag).
None == "<None>"

\* Truthiness test used by `if self.owner:` and friends.
Truthy(s) == s # None /\ s # ""

(***************************************************************************)
(* Names.  Strings are atomic for TLC, so str.lower() and                  *)
(* str.startswith("pg_") are tabulated over the names the model uses.      *)
(***************************************************************************)
Lower(s) ==
  CASE s = "Postgres" -> "postgres"
    [] s = "PUBLIC" -> "public"
    [] s = "PG_monitor" -> "pg_monitor"
    [] OTHER -> s

StartsWithPg(s) == s \in {"pg_monitor"}

\* The master connection's login name and database (Connection.username / .database).
MasterUser == "admin"
MasterDatabase == "postgres"

\* Statement.ALL_DATABASES
ALL_DATABASES == "ALL_DATABASES"

\* Role.FORBIDDEN_ROLES
FORBIDDEN_ROLES == {"public", "postgres"}

(***************************************************************************)
(* Privilege classes.                                                      *)
(***************************************************************************)
DatabasePrivilegeALL == {"CONNECT", "CREATE", "TEMPORARY"}
SchemaPrivilegeALL == {"CREATE", "USAGE"}
SchemaTablesPrivilegeALL ==
  {"SELECT", "INSERT", "UPDATE", "DELETE", "TRUNCATE", "REFERENCES", "TRIGGER"}

PrivALL(type) ==
  CASE type = "DatabasePrivilege" -> DatabasePrivilegeALL
    [] type = "SchemaPrivilege" -> SchemaPrivilegeALL
    [] OTHER -> SchemaTablesPrivilegeALL

\* str.upper() over the privilege spellings the model uses.
Upper(p) ==
  CASE p = "all" -> "ALL"
    [] p = "temp" -> "TEMP"
    [] p = "connect" -> "CONNECT"
    [] p = "usage" -> "USAGE"
    [] p = "select" -> "SELECT"
    [] p = "Temp" -> "TEMP"
    [] p = "bogus" -> "BOGUS"
    [] OTHER -> p

\* A variant of the loop body that knows no alias.
ParseOneNoAlias(p, type) ==
  LET u == Upper(p)
  IN IF u = "ALL" THEN PrivALL(type)
     ELSE IF u \notin PrivALL(type) THEN {"<error>"}
     ELSE {u}

\* One name of parse_privileges' loop: the names it appends, or {"<error>"}.
ParseOne(p, type) ==
  LET u == Upper(p)
      a == IF u = "TEMP" THEN "TEMPORARY" ELSE u
  IN IF u = "ALL" THEN PrivALL(type)
     ELSE IF a \notin PrivALL(type) THEN {"<error>"}
     ELSE {a}

\* parse_privileges(privileges, obj_type) for a collection of names.
ParsePrivileges(privileges, type) ==
  UNION {ParseOne(p, type) : p \in privileges}

ParseFails(privileges, type) == "<error>" \in ParsePrivileges(privileges, type)

\* The head of parse_privileges: nothing, "" and an empty collection give the
\* empty set, a string is a collection of one name.
NamesOf(arg) ==
  CASE arg.kind = "none" -> {}
    [] arg.kind = "str" -> IF arg.name = "" THEN {} ELSE {arg.name}
    [] OTHER -> arg.names

(***************************************************************************)
(* Objects.  Every object is a record of one shape; attributes a class     *)
(* does not have are None / {}.  `deps` is Object.dependencies, a set of   *)
(* keys fixed when the object is constructed.                              *)
(***************************************************************************)
LinkTypes == {"GroupUser", "DatabaseOwner", "SchemaOwner"}

BlankKey ==
  [type |-> None, name |-> None, database |-> None, schema |-> None,
   group |-> None, user |-> None, owner |-> None, grantee |-> None,
   grantor |-> None, privileges |-> {}]

BlankObject ==
  [type |-> None, name |-> None, database |-> None, schema |-> None,
   group |-> None, user |-> None, owner |-> None, grantee |-> None,
   grantor |-> None, privileges |-> {}, groups |-> {}, present |-> TRUE,
   deps |-> {}]

GroupKey(n) == [BlankKey EXCEPT !.type = "Group", !.name = n]
UserKey(n) == [BlankKey EXCEPT !.type = "User", !.name = n]
DatabaseKey(n) == [BlankKey EXCEPT !.type = "Database", !.name = n]
SchemaKey(d, n) == [BlankKey EXCEPT !.type = "Schema", !.database = d, !.name = n]

\* Object.key and its overrides: the attributes that appear in the key string.
Key(o) ==
  CASE o.type \in {"Group", "User", "Database"} ->
         [BlankKey EXCEPT !.type = o.type, !.name = o.name]
    [] o.type = "Schema" -> SchemaKey(o.database, o.name)
    [] o.type = "GroupUser" ->
         [BlankKey EXCEPT !.type = o.type, !.group = o.group, !.user = o.user]
    [] o.type = "DatabaseOwner" ->
         [BlankKey EXCEPT !.type = o.type, !.database = o.database, !.owner = o.owner]
    [] o.type = "SchemaOwner" ->
         [BlankKey EXCEPT !.type = o.type, !.database = o.database,
                          !.schema = o.schema, !.owner = o.owner]
    [] o.type = "DatabasePrivilege" ->
         [BlankKey EXCEPT !.type = o.type, !.grantee = o.grantee,
                          !.database = o.database, !.privileges = o.privileges]
    [] o.type \in {"SchemaPrivilege", "SchemaTablesPrivilege"} ->
         [BlankKey EXCEPT !.type = o.type, !.grantee = o.grantee,
                          !.database = o.database, !.schema = o.schema,
                          !.privileges = o.privileges]
    [] o.type = "DefaultPrivilege" ->
         [BlankKey EXCEPT !.type = o.type, !.grantor = o.grantor,
                          !.grantee = o.grantee, !.database = o.database,
                          !.schema = o.schema, !.privileges = o.privileges]
    [] OTHER -> BlankKey

\* The key of a DefaultPrivilege's target, a SchemaTablesPrivilege.
TargetKey(o) ==
  [BlankKey EXCEPT !.type = "SchemaTablesPrivilege", !.grantee = o.grantee,
                   !.database = o.database, !.schema = o.schema,
                   !.privileges = o.privileges]

(***************************************************************************)
(* The registry: Setup._objects, a dict in insertion order.                *)
(***************************************************************************)
Range(s) == {s[i] : i \in DOMAIN s}

Keys(reg) == {Key(reg[i]) : i \in DOMAIN reg}

\* Setup.__contains__ for a key.
Contains(reg, k) == k \in Keys(reg)

\* Setup.get: the registered object with this key.
Get(reg, k) == CHOOSE o \in Range(reg) : Key(o) = k

ErrorKey == [BlankKey EXCEPT !.type = "<ValueError>"]

\* Setup.resolve_role: a registered Group wins over a registered User.
ResolveRole(rolname, reg) ==
  IF Contains(reg, GroupKey(rolname)) THEN GroupKey(rolname)
  ELSE IF Contains(reg, UserKey(rolname)) THEN UserKey(rolname)
  ELSE IF Lower(rolname) = "public" THEN GroupKey("public")
  ELSE ErrorKey

\* Object.resolve_role: without a setup the role is taken to be a Group.
ObjectResolveRole(rolname, reg, hasSetup) ==
  IF hasSetup THEN ResolveRole(rolname, reg) ELSE GroupKey(rolname)

(***************************************************************************)
(* Construction.  A declaration is a BlankObject-shaped record holding the *)
(* constructor's arguments (privileges as given, not yet parsed).  The     *)
(* Setup helpers (Setup.group, .user, .database, ...) pass setup=self;     *)
(* Setup.default_privilege does not pass a setup.                          *)
(***************************************************************************)
HasSetup(decl) == decl.type # "DefaultPrivilege"

PrivilegeTypes == {"DatabasePrivilege", "SchemaPrivilege", "SchemaTablesPrivilege"}

\* The role name a constructor resolves, or None.
RoleToResolve(decl) ==
  CASE decl.type \in {"Database", "Schema", "DatabaseOwner", "SchemaOwner"} ->
         IF Truthy(decl.owner) THEN decl.owner ELSE None
    [] decl.type \in PrivilegeTypes -> decl.grantee
    [] decl.type = "DefaultPrivilege" -> decl.grantor
    [] OTHER -> None

\* The exception __init__ raises, or None: parse_privileges runs before resolve_role.
ConstructError(decl, reg) ==
  IF decl.type \in PrivilegeTypes /\ ParseFails(decl.privileges, decl.type)
  THEN "ValueError: unsupported privilege"
  ELSE IF RoleToResolve(decl) # None
          /\ ObjectResolveRole(RoleToResolve(decl), reg, HasSetup(decl)) = ErrorKey
  THEN "ValueError: ambiguous role"
  ELSE None

\* self.dependencies as the constructors fill it.
Dependencies(decl, reg) ==
  LET role == IF RoleToResolve(decl) = None THEN {}
              ELSE {ObjectResolveRole(RoleToResolve(decl), reg, HasSetup(decl))}
  IN CASE decl.type = "User" -> {GroupKey(g) : g \in decl.groups}
       [] decl.type = "Database" -> role
       [] decl.type = "Schema" -> {DatabaseKey(decl.database)} \cup role
       [] decl.type = "DatabasePrivilege" -> {DatabaseKey(decl.database)} \cup role
       [] decl.type \in {"SchemaPrivilege", "SchemaTablesPrivilege"} ->
            {DatabaseKey(decl.database), SchemaKey(decl.database, decl.schema)} \cup role
       [] decl.type = "DefaultPrivilege" -> {TargetKey(decl)} \cup role
       [] decl.type = "GroupUser" -> {GroupKey(decl.group), UserKey(decl.user)}
       [] decl.type = "DatabaseOwner" -> {DatabaseKey(decl.database)} \cup role
       [] decl.type = "SchemaOwner" ->
            {SchemaKey(decl.database, decl.schema)} \cup role
       [] OTHER -> {}

\* The constructed object (meaningful when ConstructError is None).
Construct(decl, reg) ==
  [decl EXCEPT !.privileges = IF decl.type \in PrivilegeTypes
                              THEN ParsePrivileges(decl.privileges, decl.type)
                              ELSE decl.privileges,
               !.deps = Dependencies(decl, reg)]

(***************************************************************************)
(* Setup.register.  The dependency loop runs over a set, so when several   *)
(* dependencies are bad any of them may be the one that raises.            *)
(***************************************************************************)
\* A variant of the dependency check that only asks for the dependency to be
\* registered.
DependencyErrorsRegisteredOnly(obj, reg) ==
  {"ValueError: dependency not registered" :
       dep \in {d \in obj.deps : ~Contains(reg, d)}}

\* The loop over obj.dependencies.
DependencyErrors(obj, reg) ==
  {"ValueError: dependency not registered" :
       dep \in {d \in obj.deps : ~Contains(reg, d)}}
  \cup {"ValueError: dependency not present" :
       dep \in {d \in obj.deps : Contains(reg, d) /\ obj.present /\ ~Get(reg, d).present}}

\* A variant of the checks that lets a link entity through.
RegisterErrorsLinksAllowed(obj, reg) ==
  IF Contains(reg, Key(obj)) THEN {"AssertionError: duplicate key"}
  ELSE DependencyErrors(obj, reg)

RegisterErrors(obj, reg) ==
  IF obj.type \in LinkTypes THEN {"TypeError: link entity"}
  ELSE IF Contains(reg, Key(obj)) THEN {"AssertionError: duplicate key"}
  ELSE DependencyErrors(obj, reg)

\* A variant of register that stores the object before it checks the
\* dependencies.
RegisterOutcomesStoreFirst(decl, reg) ==
  IF ConstructError(decl, reg) # None
  THEN {<<ConstructError(decl, reg), reg>>}
  ELSE LET obj == Construct(decl, reg)
           errs == RegisterErrors(obj, reg)
       IN IF errs = {} THEN {<<None, Append(reg, obj)>>}
          ELSE {<<e, IF Contains(reg, Key(obj)) \/ obj.type \in LinkTypes
                     THEN reg ELSE Append(reg, obj)>> : e \in errs}

\* The outcomes of constructing and registering `decl`: <<error, registry after>>.
RegisterOutcomes(decl, reg) ==
  IF ConstructError(decl, reg) # None
  THEN {<<ConstructError(decl, reg), reg>>}
  ELSE LET obj == Construct(decl, reg)
           errs == RegisterErrors(obj, reg)
       IN IF errs = {} THEN {<<None, Append(reg, obj)>>}
          ELSE {<<e, reg>> : e \in errs}

\* Setup.get_implicit_objects
ImplicitObjects == <<[BlankObject EXCEPT !.type = "Group", !.name = "public"]>>

(***************************************************************************)
(* Graph (graph.py).  Vertices are keyed by the hash of their value, i.e.  *)
(* by object key; an edge <<u, v>> says u depends on v.  add_edge looks    *)
(* both ends up in the vertex dict and raises KeyError when one is absent. *)
(***************************************************************************)
EmptyGraph == [vertices |-> {}, edges |-> {}, error |-> None]

VertexKeys(g) == {Key(v) : v \in g.vertices}

\* Graph.new_vertex: a vertex of the same key is replaced.
NewVertex(g, obj) ==
  [g EXCEPT !.vertices = {v \in g.vertices : Key(v) # Key(obj)} \cup {obj}]

\* Graph.add_edge for every dependency of obj.
AddEdges(g, obj) ==
  IF \E d \in obj.deps : d \notin VertexKeys(g)
  THEN [g EXCEPT !.error = "KeyError"]
  ELSE [g EXCEPT !.edges = g.edges \cup {<<Key(obj), d>> : d \in obj.deps}]

\* Object.add_to_graph
ObjectAddToGraph(g, obj) == AddEdges(NewVertex(g, obj), obj)

\* The link entities a parent introduces in its add_to_graph override.
LinkDecls(obj) ==
  CASE obj.type = "User" ->
         {[BlankObject EXCEPT !.type = "GroupUser", !.group = grp, !.user = obj.name,
                              !.present = obj.present] : grp \in obj.groups}
    [] obj.type = "Database" /\ Truthy(obj.owner) ->
         {[BlankObject EXCEPT !.type = "DatabaseOwner", !.database = obj.name,
                              !.owner = obj.owner, !.present = obj.present]}
    [] obj.type = "Schema" /\ Truthy(obj.owner) ->
         {[BlankObject EXCEPT !.type = "SchemaOwner", !.database = obj.database,
                              !.schema = obj.name, !.owner = obj.owner,
                              !.present = obj.present]}
    [] OTHER -> {}

RECURSIVE AddLinks(_, _, _)
AddLinks(g, links, reg) ==
  IF links = {} THEN g
  ELSE LET l == CHOOSE x \in links : TRUE
       IN IF ConstructError(l, reg) # None
          THEN [g EXCEPT !.error = ConstructError(l, reg)]
          ELSE AddLinks(ObjectAddToGraph(g, Construct(l, reg)), links \ {l}, reg)

\* add_to_graph of User, Database, Schema (and Object's for the rest).
AddToGraph(g, obj, reg) == AddLinks(ObjectAddToGraph(g, obj), LinkDecls(obj), reg)

RECURSIVE GraphOfPrefix(_, _)
GraphOfPrefix(reg, n) ==
  IF n = 0 THEN EmptyGraph
  ELSE LET g == GraphOfPrefix(reg, n - 1)
       IN IF g.error # None THEN g ELSE AddToGraph(g, reg[n], reg)

\* Setup.generate_graph
GenerateGraph(reg) == GraphOfPrefix(reg, Len(reg))

\* Vertex.dependencies / Vertex.dependants over an edge set.
DependenciesOf(E, n) == {e[2] : e \in {x \in E : x[1] = n}}
DependantsOf(E, n) == {e[1] : e \in {x \in E : x[2] = n}}

(***************************************************************************)
(* Graph.topological_sort_by_kahn.  S is a Python set and S.pop() takes an *)
(* arbitrary member, so every run of the loop is a possible outcome.       *)
(***************************************************************************)
\* A variant of the loop that moves a dependant to S as soon as one of its
\* dependencies is sorted.
RECURSIVE KahnRunsEager(_, _, _)
KahnRunsEager(L, S, E) ==
  IF S = {} THEN {[L |-> L, E |-> E]}
  ELSE UNION {
         LET E2 == E \ {<<m, n>> : m \in DependantsOf(E, n)}
         IN KahnRunsEager(Append(L, n), (S \ {n}) \cup DependantsOf(E, n), E2) : n \in S}

RECURSIVE KahnRuns(_, _, _)
KahnRuns(L, S, E) ==
  IF S = {} THEN {[L |-> L, E |-> E]}
  ELSE UNION {
         LET E2 == E \ {<<m, n>> : m \in DependantsOf(E, n)}
             ready == {m \in DependantsOf(E, n) : DependenciesOf(E2, m) = {}}
         IN KahnRuns(Append(L, n), (S \ {n}) \cup ready, E2) : n \in S}

\* The possible results over the clone's vertices V and edges E: an order of
\* vertex keys or an error, with the edges left in the clone.
KahnSort(V, E) ==
  LET S0 == {k \in V : DependenciesOf(E, k) = {}}
  IN IF S0 = {}
     THEN {[order |-> <<>>, error |-> "ValueError: no vertex with no incoming edges",
            E |-> E]}
     ELSE {IF r.E # {}
           THEN [order |-> <<>>, error |-> "ValueError: at least one cycle", E |-> r.E]
           ELSE [order |-> r.L, error |-> None, E |-> r.E] : r \in KahnRuns(<<>>, S0, E)}

\* A variant of clone() that hands back the graph itself.
CloneIsSelf == "self"

\* Graph.clone: the sort works on a new Graph with the same vertices and edges.
Clone == "clone"

\* The possible results of the sort on a registry's graph.
TopologicalSortByKahn(g) == KahnSort(VertexKeys(g), g.edges)

VertexOf(g, k) == CHOOSE v \in g.vertices : Key(v) = k

\* Setup.topological_order: the possible lists of objects (empty on an error).
TopologicalOrders(reg) ==
  LET g == GenerateGraph(reg)
  IN IF g.error # None THEN {}
     ELSE {[i \in DOMAIN r.order |-> VertexOf(g, r.order[i])] :
             r \in {x \in TopologicalSortByKahn(g) : x.error = None}}

(***************************************************************************)
(* Observed state (ServerState in setup.py, the providers it inherits).    *)
(* Each map is a set of tuples:                                            *)
(*   databases <<name, owner>>            schemas <<db, schema, owner>>    *)
(*   group_users <<group, user>>          database_privileges <<db, grantee, priv>> *)
(*   schema_privileges <<db, schema, grantee, priv>>                       *)
(*   schema_tables <<db, schema, table>>                                   *)
(*   schema_tables_privileges <<db, schema, grantee, table, priv>>         *)
(* group_users and schema_tables_privileges are defaultdicts, in which a   *)
(* read of a missing key inserts the key with an empty value; the keys     *)
(* they hold are kept next to the tuples:                                  *)
(*   group_users_keys group               stp_keys <<db, schema, grantee, table>> *)
(***************************************************************************)
IS_PRESENT == "IS_PRESENT"
IS_ABSENT == "IS_ABSENT"
IS_DIFFERENT == "IS_DIFFERENT"
IS_UNKNOWN == "IS_UNKNOWN"

EmptyState ==
  [groups |-> {}, users |-> {}, group_users |-> {}, databases |-> {},
   schemas |-> {}, database_privileges |-> {}, schema_privileges |-> {},
   schema_tables |-> {}, schema_tables_privileges |-> {},
   group_users_keys |-> {}, stp_keys |-> {}]

DatabaseNames(st) == {d[1] : d \in st.databases}

\* ServerState.get_database
GetDatabase(st, obj) ==
  IF obj.name \in DatabaseNames(st) THEN IS_PRESENT ELSE IS_ABSENT

\* A variant of the classification that reports a different owner as such.
GetDatabaseOwnerDifferent(st, obj) ==
  IF obj.database \notin DatabaseNames(st) THEN IS_ABSENT
  ELSE IF <<obj.database, obj.owner>> \in st.databases THEN IS_PRESENT
  ELSE IS_DIFFERENT

\* ServerState.get_databaseowner: a different owner is reported as absent.
GetDatabaseOwner(st, obj) ==
  IF obj.database \notin DatabaseNames(st) THEN IS_ABSENT
  ELSE IF <<obj.database, obj.owner>> \in st.databases THEN IS_PRESENT
  ELSE IS_ABSENT

\* DatabasePrivilegeStateProvider._get_database_privileges
GetDatabasePrivileges(st, database, grantee) ==
  {p[3] : p \in {x \in st.database_privileges : x[1] = database /\ x[2] = grantee}}

\* A variant of the classification without the test for no privileges at all.
GetDatabasePrivilegeNoEmptyTest(st, obj) ==
  IF obj.privileges = GetDatabasePrivileges(st, obj.database, obj.grantee)
  THEN IS_PRESENT ELSE IS_DIFFERENT

\* DatabasePrivilegeStateProvider.get_databaseprivilege
GetDatabasePrivilege(st, obj) ==
  LET privileges == GetDatabasePrivileges(st, obj.database, obj.grantee)
  IN IF privileges = {} THEN IS_ABSENT
     ELSE IF obj.privileges = privileges THEN IS_PRESENT ELSE IS_DIFFERENT

\* ServerState.get_schemaprivilege
GetSchemaPrivilege(st, obj) ==
  LET mine == {x \in st.schema_privileges :
                 x[1] = obj.database /\ x[2] = obj.schema /\ x[3] = obj.grantee}
  IN IF mine = {} THEN IS_ABSENT
     ELSE IF obj.privileges = {x[4] : x \in mine} THEN IS_PRESENT
     ELSE IS_DIFFERENT

\* A variant of the classification that is satisfied by one matching table.
GetSchemaTablesPrivilegeAnyTable(st, obj) ==
  LET mine == {x \in st.schema_tables_privileges :
                 x[1] = obj.database /\ x[2] = obj.schema /\ x[3] = obj.grantee}
  IN IF mine = {} THEN IS_ABSENT
     ELSE IF \E t \in {x[4] : x \in mine} :
               {x[5] : x \in {y \in mine : y[4] = t}} = obj.privileges
     THEN IS_PRESENT
     ELSE IS_DIFFERENT

\* ServerState.get_schematablesprivilege
GetSchemaTablesPrivilege(st, obj) ==
  LET mine == {x \in st.schema_tables_privileges :
                 x[1] = obj.database /\ x[2] = obj.schema /\ x[3] = obj.grantee}
      tables == {t[3] : t \in {x \in st.schema_tables :
                                 x[1] = obj.database /\ x[2] = obj.schema}}
  IN IF mine = {} THEN IS_ABSENT
     ELSE IF \A t \in tables : {x[5] : x \in {y \in mine : y[4] = t}} = obj.privileges
     THEN IS_PRESENT
     ELSE IS_DIFFERENT

\* A variant of the classification that never looks at the snapshot.
GetDefaultPrivilegeUnknown(st, obj) == IS_UNKNOWN

\* ServerState.get_defaultprivilege (the target is always a SchemaTablesPrivilege)
GetDefaultPrivilege(st, obj) ==
  IF obj.grantor \notin st.groups /\ obj.grantor \notin st.users THEN IS_ABSENT
  ELSE IF \A x \in st.schemas : x[1] # obj.database THEN IS_ABSENT
  ELSE IF \A x \in st.schemas : ~(x[1] = obj.database /\ x[2] = obj.schema)
  THEN IS_ABSENT
  ELSE IS_UNKNOWN

\* ServerState.get_user / get_group / get_groupuser
GetUser(st, obj) == IF obj.name \in st.users THEN IS_PRESENT ELSE IS_ABSENT
GetGroup(st, obj) == IF obj.name \in st.groups THEN IS_PRESENT ELSE IS_ABSENT
GetGroupUser(st, obj) ==
  IF <<obj.group, obj.user>> \in st.group_users THEN IS_PRESENT ELSE IS_ABSENT

\* ServerState.get_schema
GetSchema(st, obj) ==
  IF \E x \in st.schemas : x[1] = obj.database /\ x[2] = obj.name
  THEN IS_PRESENT ELSE IS_ABSENT

\* ServerState.get_schemaowner: a different owner is reported as absent.
GetSchemaOwner(st, obj) ==
  IF <<obj.database, obj.schema, obj.owner>> \in st.schemas
  THEN IS_PRESENT ELSE IS_ABSENT

\* What a get_current_state(obj) call can leave in the snapshot.
\* get_groupuser reads group_users[obj.group].  get_schematablesprivilege
\* reads stp[database][schema][grantee][t] for the tables of the schema in the
\* order pg_tables listed them, until all() meets a table that does not match.
ClassifyOutcomes(st, obj) ==
  CASE obj.type = "GroupUser" ->
         {[st EXCEPT !.group_users_keys = @ \cup {obj.group}]}
    [] obj.type = "SchemaTablesPrivilege" ->
         LET mine == {x \in st.schema_tables_privileges :
                        x[1] = obj.database /\ x[2] = obj.schema /\ x[3] = obj.grantee}
             tables == {t[3] : t \in {x \in st.schema_tables :
                                        x[1] = obj.database /\ x[2] = obj.schema}}
             Matches(t) == {x[5] : x \in {y \in mine : y[4] = t}} = obj.privileges
             visited == {V \in SUBSET tables :
                           \/ V = tables /\ \A t \in V : Matches(t)
                           \/ \E t0 \in V : ~Matches(t0) /\ \A t \in V \ {t0} : Matches(t)}
         IN IF mine = {} THEN {st}
            ELSE {[st EXCEPT !.stp_keys =
                     @ \cup {<<obj.database, obj.schema, obj.grantee, t>> : t \in V}] :
                    V \in visited}
    [] OTHER -> {st}

\* The snapshots after get_current_state on each of the given objects (the
\* keys it inserts do not depend on the order of the calls).
RECURSIVE ClassifyEach(_, _)
ClassifyEach(sts, objs) ==
  IF objs = {} THEN sts
  ELSE LET obj == CHOOSE x \in objs : TRUE
       IN ClassifyEach(UNION {ClassifyOutcomes(st, obj) : st \in sts}, objs \ {obj})

\* ServerState.get / Setup.get_current_state: dispatch on the class name.
GetCurrentState(st, obj) ==
  CASE obj.type = "Database" -> GetDatabase(st, obj)
    [] obj.type = "DatabaseOwner" -> GetDatabaseOwner(st, obj)
    [] obj.type = "DatabasePrivilege" -> GetDatabasePrivilege(st, obj)
    [] obj.type = "SchemaPrivilege" -> GetSchemaPrivilege(st, obj)
    [] obj.type = "SchemaTablesPrivilege" -> GetSchemaTablesPrivilege(st, obj)
    [] obj.type = "DefaultPrivilege" -> GetDefaultPrivilege(st, obj)
    [] obj.type = "User" -> GetUser(st, obj)
    [] obj.type = "Group" -> GetGroup(st, obj)
    [] obj.type = "GroupUser" -> GetGroupUser(st, obj)
    [] obj.type = "Schema" -> GetSchema(st, obj)
    [] obj.type = "SchemaOwner" -> GetSchemaOwner(st, obj)
    [] OTHER -> IS_UNKNOWN

(***************************************************************************)
(* Statements (statements.py).  A query is kept as its verb, its operands  *)
(* and the privilege set it names (the text joins a Python set, so the     *)
(* order of the names inside the text is not fixed).  A statement records  *)
(* its class (`kind`), its routing tag (`database`), the object whose      *)
(* generator yielded it (`obj`) and its queries: one for a Text, Create or *)
(* Drop statement, one per member for a TransactionOfStatements.  `pass`   *)
(* is filled in by GenerateStmts.  A generator that raises yields a        *)
(* "Raise" item in place of the statement it was building.                 *)
(***************************************************************************)
Q(op, args, privs) == [op |-> op, args |-> args, privs |-> privs]

\* `tags` holds the `database` attribute of each member statement; a statement
\* that is not a transaction is its own only member.
Stmt(kind, obj, database, queries) ==
  [kind |-> kind, obj |-> Key(obj), database |-> database, queries |-> queries,
   tags |-> [n \in DOMAIN queries |-> database], pass |-> None]

TextStatement(obj, database, q) == Stmt("Text", obj, database, <<q>>)

\* TransactionOfStatements(*statements, database=...): the members keep the
\* query and the database they were built with.
TransactionOfStatements(obj, database, statements) ==
  [Stmt("Transaction", obj, database,
        [n \in DOMAIN statements |-> statements[n].queries[1]])
     EXCEPT !.tags = [n \in DOMAIN statements |-> statements[n].database]]

\* obj.__class__.__name__.upper()
ClassUpper(type) ==
  CASE type = "Group" -> "GROUP"
    [] type = "User" -> "USER"
    [] type = "Database" -> "DATABASE"
    [] type = "Schema" -> "SCHEMA"
    [] OTHER -> type

\* CreateStatement / DropStatement: the query is derived from the object.
CreateStatement(obj, database) ==
  Stmt("Create", obj, database, <<Q("CREATE", <<ClassUpper(obj.type), obj.name>>, {})>>)

DropStatement(obj, database) ==
  Stmt("Drop", obj, database, <<Q("DROP", <<ClassUpper(obj.type), obj.name>>, {})>>)

\* Statement.is_on_all_databases
IsOnAllDatabases(stmt) == stmt.database = ALL_DATABASES

\* A variant of _is_managed that compares the name without lower-casing it.
IsManagedCaseSensitive(obj) ==
  IF obj.name \in FORBIDDEN_ROLES THEN FALSE
  ELSE IF StartsWithPg(obj.name) THEN FALSE
  ELSE IF obj.name = MasterUser THEN FALSE
  ELSE TRUE

\* Role._is_managed
IsManaged(obj) ==
  IF Lower(obj.name) \in FORBIDDEN_ROLES THEN FALSE
  ELSE IF StartsWithPg(Lower(obj.name)) THEN FALSE
  ELSE IF obj.name = MasterUser THEN FALSE
  ELSE TRUE

\* Role.stmts_to_create
RoleStmtsToCreate(obj) ==
  IF ~IsManaged(obj) THEN <<>> ELSE <<CreateStatement(obj, None)>>

\* A variant of the drop generator that revokes on the master database before
\* it revokes on the managed databases.
RoleStmtsToDropMasterFirst(obj) ==
  IF ~IsManaged(obj) THEN <<>>
  ELSE <<TextStatement(obj, ALL_DATABASES,
                       Q("REASSIGN OWNED BY", <<obj.name, MasterUser>>, {})),
         TextStatement(obj, MasterDatabase,
                       Q("REVOKE ALL ON SCHEMA", <<"public", obj.name>>, {})),
         TextStatement(obj, ALL_DATABASES,
                       Q("REVOKE ALL ON SCHEMA", <<"public", obj.name>>, {})),
         DropStatement(obj, None)>>

\* Role.stmts_to_drop
RoleStmtsToDrop(obj) ==
  IF ~IsManaged(obj) THEN <<>>
  ELSE <<TextStatement(obj, ALL_DATABASES,
                       Q("REASSIGN OWNED BY", <<obj.name, MasterUser>>, {})),
         TextStatement(obj, ALL_DATABASES,
                       Q("REVOKE ALL ON SCHEMA", <<"public", obj.name>>, {})),
         TextStatement(obj, MasterDatabase,
                       Q("REVOKE ALL ON SCHEMA", <<"public", obj.name>>, {})),
         DropStatement(obj, None)>>

\* User.stmts_to_maintain (inherit and password keep their defaults)
UserStmtsToMaintain(obj) ==
  <<TextStatement(obj, None, Q("ALTER USER", <<obj.name, "NOCREATEDB", "NOINHERIT", "LOGIN">>, {}))>>

\* A variant of the create transaction that always starts with REVOKE ALL.
RevokeAlways(obj, stmt) == <<stmt>>

\* The REVOKE ALL that a privilege's create transaction starts with unless
\* the privileges are the whole class.
RevokeFirst(obj, stmt) == IF obj.privileges # PrivALL(obj.type) THEN <<stmt>> ELSE <<>>

\* DefaultPrivilege._get_schema_sql raises for a falsy schema.
SchemaSqlRaises(obj) == ~Truthy(obj.schema)

Raise(obj, error) == Stmt("Raise", obj, None, <<Q(error, <<>>, {})>>)

\* A variant of the statement below that is tagged for the master database.
RevokeAllStmtOnMaster(obj) ==
  TextStatement(obj, MasterDatabase,
                Q("ALTER DEFAULT PRIVILEGES REVOKE",
                  <<obj.grantor, obj.schema, obj.grantee>>, SchemaTablesPrivilegeALL))

\* DefaultPrivilege._get_revoke_all_stmt
RevokeAllStmt(obj) ==
  TextStatement(obj, obj.database,
                Q("ALTER DEFAULT PRIVILEGES REVOKE",
                  <<obj.grantor, obj.schema, obj.grantee>>, SchemaTablesPrivilegeALL))

\* stmts_to_create of each class
StmtsToCreate(obj) ==
  CASE obj.type \in {"Group", "User"} -> RoleStmtsToCreate(obj)
    [] obj.type = "GroupUser" ->
         <<TextStatement(obj, None, Q("ALTER GROUP ADD USER", <<obj.group, obj.user>>, {}))>>
    [] obj.type = "Database" -> <<CreateStatement(obj, None)>>
    [] obj.type = "DatabaseOwner" ->
         <<TextStatement(obj, None, Q("ALTER DATABASE OWNER TO", <<obj.database, obj.owner>>, {}))>>
    [] obj.type = "DatabasePrivilege" ->
         <<TransactionOfStatements(obj, None,
             RevokeFirst(obj, TextStatement(obj, None,
               Q("REVOKE ALL ON DATABASE", <<obj.database, obj.grantee>>, {})))
             \o <<TextStatement(obj, None,
                   Q("GRANT ON DATABASE", <<obj.database, obj.grantee>>, obj.privileges))>>)>>
    [] obj.type = "Schema" -> <<CreateStatement(obj, obj.database)>>
    [] obj.type = "SchemaOwner" ->
         <<TextStatement(obj, obj.database,
                         Q("ALTER SCHEMA OWNER TO", <<obj.schema, obj.owner>>, {}))>>
    [] obj.type = "SchemaPrivilege" ->
         <<TransactionOfStatements(obj, obj.database,
             RevokeFirst(obj, TextStatement(obj, obj.database,
               Q("REVOKE ALL ON SCHEMA", <<obj.schema, obj.grantee>>, {})))
             \o <<TextStatement(obj, obj.database,
                   Q("GRANT ON SCHEMA", <<obj.schema, obj.grantee>>, obj.privileges))>>)>>
    [] obj.type = "SchemaTablesPrivilege" ->
         <<TransactionOfStatements(obj, obj.database,
             RevokeFirst(obj, TextStatement(obj, obj.database,
               Q("REVOKE ALL ON ALL TABLES", <<obj.schema, obj.grantee>>, {})))
             \o <<TextStatement(obj, obj.database,
                   Q("GRANT ON ALL TABLES", <<obj.schema, obj.grantee>>, obj.privileges))>>)>>
    [] OTHER -> <<>>

\* Object.stmts_to_update: no class overrides it.
StmtsToUpdate(obj) == StmtsToCreate(obj)

\* stmts_to_drop of each class
StmtsToDrop(obj) ==
  CASE obj.type \in {"Group", "User"} -> RoleStmtsToDrop(obj)
    [] obj.type = "GroupUser" ->
         <<TextStatement(obj, None, Q("ALTER GROUP DROP USER", <<obj.group, obj.user>>, {}))>>
    [] obj.type = "Database" -> <<DropStatement(obj, None)>>
    [] obj.type = "DatabasePrivilege" ->
         <<TextStatement(obj, None,
                         Q("REVOKE ON DATABASE", <<obj.database, obj.grantee>>, obj.privileges))>>
    [] obj.type = "Schema" -> <<DropStatement(obj, obj.database)>>
    [] obj.type = "SchemaPrivilege" ->
         <<TextStatement(obj, obj.database,
                         Q("REVOKE ALL ON SCHEMA", <<obj.schema, obj.grantee>>, {}))>>
    [] obj.type = "SchemaTablesPrivilege" ->
         <<TextStatement(obj, obj.database,
                         Q("REVOKE ON ALL TABLES", <<obj.schema, obj.grantee>>, obj.privileges))>>
    [] obj.type = "DefaultPrivilege" ->
         IF SchemaSqlRaises(obj) THEN <<Raise(obj, "ValueError: global default privileges")>>
         ELSE <<RevokeAllStmt(obj)>>
    [] OTHER -> <<>>

\* stmts_to_maintain of each class
StmtsToMaintain(obj) ==
  CASE obj.type = "User" -> UserStmtsToMaintain(obj)
    [] obj.type = "Database" ->
         <<TextStatement(obj, None, Q("REVOKE ALL ON DATABASE", <<obj.name, "public">>, {}))>>
    [] obj.type = "DefaultPrivilege" ->
         IF SchemaSqlRaises(obj) THEN <<Raise(obj, "ValueError: global default privileges")>>
         ELSE <<TransactionOfStatements(obj, obj.database,
                  <<RevokeAllStmt(obj),
                    TextStatement(obj, obj.database,
                      Q("ALTER DEFAULT PRIVILEGES GRANT",
                        <<obj.grantor, obj.schema, obj.grantee>>, obj.privileges))>>)>>
    [] OTHER -> <<>>

(***************************************************************************)
(* Setup._generate_stmts: three passes over one topological order.         *)
(***************************************************************************)
Tag(stmts, pass) == [i \in DOMAIN stmts |-> [stmts[i] EXCEPT !.pass = pass]]

\* The body of the first loop for one object.
CreatePass(obj, st) ==
  LET current_state == GetCurrentState(st, obj)
  IN IF current_state = IS_ABSENT /\ obj.present THEN Tag(StmtsToCreate(obj), "create")
     ELSE IF current_state = IS_UNKNOWN /\ obj.present THEN Tag(StmtsToCreate(obj), "create")
     ELSE IF current_state = IS_DIFFERENT /\ obj.present THEN Tag(StmtsToUpdate(obj), "update")
     ELSE <<>>

\* A variant of the second loop's body that does not look at the present flag.
MaintainPassAlways(obj) == Tag(StmtsToMaintain(obj), "maintain")

\* The body of the second loop for one object.
MaintainPass(obj) ==
  IF obj.present THEN Tag(StmtsToMaintain(obj), "maintain") ELSE <<>>

\* A variant of the third loop's body without the branch for an unknown state.
DropPassPresentOnly(obj, st) ==
  LET current_state == GetCurrentState(st, obj)
  IN IF current_state = IS_PRESENT /\ ~obj.present THEN Tag(StmtsToDrop(obj), "drop")
     ELSE <<>>

\* A variant of the third loop's body that does not look at the present flag.
DropPassAnyDeclared(obj, st) ==
  LET current_state == GetCurrentState(st, obj)
  IN IF current_state \in {IS_PRESENT, IS_UNKNOWN} THEN Tag(StmtsToDrop(obj), "drop")
     ELSE <<>>

\* The body of the third loop for one object.
DropPass(obj, st) ==
  LET current_state == GetCurrentState(st, obj)
  IN IF current_state = IS_PRESENT /\ ~obj.present THEN Tag(StmtsToDrop(obj), "drop")
     ELSE IF current_state = IS_UNKNOWN /\ ~obj.present THEN Tag(StmtsToDrop(obj), "drop")
     ELSE <<>>

\* A variant of reversed() that keeps the order.
ReversedAsIs(seq) == seq

Reversed(seq) == [i \in DOMAIN seq |-> seq[Len(seq) + 1 - i]]

RECURSIVE CreateLoop(_, _, _)
CreateLoop(objects, st, n) ==
  IF n = 0 THEN <<>> ELSE CreateLoop(objects, st, n - 1) \o CreatePass(objects[n], st)

RECURSIVE MaintainLoop(_, _)
MaintainLoop(objects, n) ==
  IF n = 0 THEN <<>> ELSE MaintainLoop(objects, n - 1) \o MaintainPass(objects[n])

RECURSIVE DropLoop(_, _, _)
DropLoop(objects, st, n) ==
  IF n = 0 THEN <<>> ELSE DropLoop(objects, st, n - 1) \o DropPass(objects[n], st)

\* The generator stops at the first statement generator that raises.
UpToRaise(stmts) ==
  IF \E i \in DOMAIN stmts : stmts[i].kind = "Raise"
  THEN SubSeq(stmts, 1, CHOOSE i \in DOMAIN stmts :
                          /\ stmts[i].kind = "Raise"
                          /\ \A j \in 1..(i - 1) : stmts[j].kind # "Raise")
  ELSE stmts

\* A variant of the generator that runs the maintain loop first.
GenerateStmtsMaintainFirst(objects, st) ==
  UpToRaise(MaintainLoop(objects, Len(objects))
            \o CreateLoop(objects, st, Len(objects))
            \o DropLoop(Reversed(objects), st, Len(objects)))

\* A variant of the generator that runs the drop loop before the other two.
GenerateStmtsDropFirst(objects, st) ==
  UpToRaise(DropLoop(Reversed(objects), st, Len(objects))
            \o CreateLoop(objects, st, Len(objects))
            \o MaintainLoop(objects, Len(objects)))

\* The statement stream of one run, for one topological order.
GenerateStmts(objects, st) ==
  UpToRaise(CreateLoop(objects, st, Len(objects))
            \o MaintainLoop(objects, Len(objects))
            \o DropLoop(Reversed(objects), st, Len(objects)))

(***************************************************************************)
(* The cluster, as far as the loader's queries read it.  Sets of tuples:   *)
(*   groups, users: role names without / with LOGIN                        *)
(*   members <<group, role>>          databases <<name, owner>>            *)
(*   schemas <<db, schema, owner>>    dbacl <<db, grantee, priv>>          *)
(*   schacl <<db, schema, grantee, priv>>   tables <<db, schema, table>>   *)
(*   tblacl <<db, schema, grantee, table, priv>>                           *)
(***************************************************************************)
EmptyCluster ==
  [groups |-> {}, users |-> {MasterUser, "postgres"}, members |-> {},
   databases |-> {<<MasterDatabase, "postgres">>}, schemas |-> {}, dbacl |-> {},
   schacl |-> {}, tables |-> {}, tblacl |-> {}]

\* Setup.managed_databases
ManagedDatabases(reg) == {reg[i].name : i \in {j \in DOMAIN reg : reg[j].type = "Database"}}

\* The databases query: everything but 'postgres' (the model has no template databases).
ObservedDatabases(cluster) == {d \in cluster.databases : d[1] # "postgres"}

\* HAS_SCHEMA_PRIVILEGE for a role without LOGIN: a direct grant, a grant to
\* public, or ownership of the schema.
HasSchemaPrivilege(cluster, role, db, schema, priv) ==
  \/ <<db, schema, role, priv>> \in cluster.schacl
  \/ <<db, schema, "public", priv>> \in cluster.schacl
  \/ <<db, schema, role>> \in cluster.schemas

\* Setup._load_server_state: the snapshot it stores.  Schemas and schema-level
\* privileges are read only from the managed databases that were observed.
LoadServerState(cluster, reg) ==
  LET groups == {g \in cluster.groups : ~StartsWithPg(g)} \cup {"public"}
      databases == ObservedDatabases(cluster)
      managed == {d[1] : d \in databases} \cap ManagedDatabases(reg)
  IN [groups |-> groups,
      users |-> {u \in cluster.users \cup cluster.groups :
                   ~StartsWithPg(u) /\ u \notin groups},
      group_users |-> {m \in cluster.members : ~StartsWithPg(m[1])},
      databases |-> databases,
      schemas |-> {x \in cluster.schemas : x[1] \in managed},
      database_privileges |-> cluster.dbacl,
      schema_privileges |->
        {t \in (managed \X {x[2] : x \in cluster.schemas}
                 \X {r \in cluster.groups : ~StartsWithPg(r)} \X SchemaPrivilegeALL) :
           /\ \E x \in cluster.schemas : x[1] = t[1] /\ x[2] = t[2]
           /\ HasSchemaPrivilege(cluster, t[3], t[1], t[2], t[4])},
      schema_tables |-> {x \in cluster.tables : x[1] \in {d[1] : d \in databases}},
      schema_tables_privileges |-> {x \in cluster.tblacl : x[1] \in managed},
      group_users_keys |-> {m[1] : m \in {x \in cluster.members : ~StartsWithPg(x[1])}},
      stp_keys |-> {<<x[1], x[2], x[3], x[4]>> :
                      x \in {y \in cluster.tblacl : y[1] \in managed}}]

(***************************************************************************)
(* What a statement does to the cluster when the server accepts it, in the *)
(* terms the loader's queries read back.  `db` is the database of the      *)
(* connection the query runs on.                                           *)
(***************************************************************************)
RoleExists(c, n) == n \in c.groups \cup c.users

\* The identifier the server reads where the query text was formatted from a
\* name: Python formats None as "None", which the server folds to lower case.
SqlName(name) == IF name = None THEN "none" ELSE name

\* The server rejects the query (psycopg2.ProgrammingError).
Refused(c, db, q) ==
  CASE q.op = "CREATE" /\ q.args[1] \in {"GROUP", "USER"} -> RoleExists(c, q.args[2])
    [] q.op = "CREATE" /\ q.args[1] = "DATABASE" ->
         \E d \in c.databases : d[1] = q.args[2]
    [] q.op = "CREATE" /\ q.args[1] = "SCHEMA" ->
         \E x \in c.schemas : x[1] = db /\ x[2] = SqlName(q.args[2])
    [] q.op = "DROP" /\ q.args[1] = "SCHEMA" ->
         \E t \in c.tables : t[1] = db /\ t[2] = q.args[2]
    [] OTHER -> FALSE

DropRole(c, n) ==
  [c EXCEPT !.groups = @ \ {n}, !.users = @ \ {n},
            !.members = {m \in @ : m[1] # n /\ m[2] # n}]

DropDatabase(c, d) ==
  [c EXCEPT !.databases = {x \in @ : x[1] # d},
            !.schemas = {x \in @ : x[1] # d},
            !.dbacl = {x \in @ : x[1] # d},
            !.schacl = {x \in @ : x[1] # d},
            !.tables = {x \in @ : x[1] # d},
            !.tblacl = {x \in @ : x[1] # d}]

Effect(c, db, q) ==
  CASE q.op = "CREATE" /\ q.args[1] = "GROUP" -> [c EXCEPT !.groups = @ \cup {q.args[2]}]
    [] q.op = "CREATE" /\ q.args[1] = "USER" -> [c EXCEPT !.users = @ \cup {q.args[2]}]
    [] q.op = "CREATE" /\ q.args[1] = "DATABASE" ->
         [c EXCEPT !.databases = @ \cup {<<q.args[2], MasterUser>>}]
    [] q.op = "CREATE" /\ q.args[1] = "SCHEMA" ->
         [c EXCEPT !.schemas = @ \cup {<<db, SqlName(q.args[2]), MasterUser>>}]
    [] q.op = "DROP" /\ q.args[1] \in {"GROUP", "USER"} -> DropRole(c, q.args[2])
    [] q.op = "DROP" /\ q.args[1] = "DATABASE" -> DropDatabase(c, q.args[2])
    [] q.op = "DROP" /\ q.args[1] = "SCHEMA" ->
         [c EXCEPT !.schemas = {x \in @ : ~(x[1] = db /\ x[2] = q.args[2])},
                   !.schacl = {x \in @ : ~(x[1] = db /\ x[2] = q.args[2])}]
    [] q.op = "REASSIGN OWNED BY" ->
         [c EXCEPT !.schemas = {IF x[1] = db /\ x[3] = q.args[1]
                                THEN <<x[1], x[2], q.args[2]>> ELSE x : x \in @},
                   !.databases = {IF d[2] = q.args[1]
                                  THEN <<d[1], q.args[2]>> ELSE d : d \in @}]
    [] q.op = "ALTER GROUP ADD USER" ->
         [c EXCEPT !.members = @ \cup {<<q.args[1], q.args[2]>>}]
    [] q.op = "ALTER GROUP DROP USER" ->
         [c EXCEPT !.members = @ \ {<<q.args[1], q.args[2]>>}]
    [] q.op = "ALTER DATABASE OWNER TO" ->
         [c EXCEPT !.databases = {IF d[1] = q.args[1]
                                  THEN <<d[1], q.args[2]>> ELSE d : d \in @}]
    [] q.op = "REVOKE ALL ON DATABASE" ->
         [c EXCEPT !.dbacl = {x \in @ : ~(x[1] = q.args[1] /\ x[2] = q.args[2])}]
    [] q.op = "GRANT ON DATABASE" ->
         [c EXCEPT !.dbacl = @ \cup {<<q.args[1], q.args[2], p>> : p \in q.privs}]
    [] q.op = "REVOKE ON DATABASE" ->
         [c EXCEPT !.dbacl = @ \ {<<q.args[1], q.args[2], p>> : p \in q.privs}]
    [] q.op = "ALTER SCHEMA OWNER TO" ->
         [c EXCEPT !.schemas = {IF x[1] = db /\ x[2] = q.args[1]
                                THEN <<x[1], x[2], q.args[2]>> ELSE x : x \in @}]
    [] q.op = "REVOKE ALL ON SCHEMA" ->
         [c EXCEPT !.schacl = {x \in @ : ~(x[1] = db /\ x[2] = q.args[1]
                                           /\ x[3] = q.args[2])}]
    [] q.op = "GRANT ON SCHEMA" ->
         [c EXCEPT !.schacl = @ \cup {<<db, q.args[1], q.args[2], p>> : p \in q.privs}]
    [] q.op = "REVOKE ALL ON ALL TABLES" ->
         [c EXCEPT !.tblacl = {x \in @ : ~(x[1] = db /\ x[2] = q.args[1]
                                           /\ x[3] = q.args[2])}]
    [] q.op = "GRANT ON ALL TABLES" ->
         [c EXCEPT !.tblacl = @ \cup
            {<<db, q.args[1], q.args[2], t[3], p>> :
               t \in {y \in c.tables : y[1] = db /\ y[2] = q.args[1]}, p \in q.privs}]
    [] q.op = "REVOKE ON ALL TABLES" ->
         [c EXCEPT !.tblacl = {x \in @ : ~(x[1] = db /\ x[2] = q.args[1]
                                           /\ x[3] = q.args[2] /\ x[5] \in q.privs)}]
    [] OTHER -> c

(***************************************************************************)
(* Connections.  A machine state m carries the cluster, the databases that *)
(* have a cached Connection (`conns`, besides the master connection), the  *)
(* databases whose Connection holds a live session (`open`), the event log *)
(* and the exception that ended the run (None while it runs).  `fault`     *)
(* counts down to the query the server refuses for a reason of its own (a  *)
(* lost connection, a lock timeout, a missing permission); 0 means none.   *)
(***************************************************************************)
NoQuery == Q("", <<>>, {})

Event(kind, db, i, q) == [kind |-> kind, db |-> db, stmt |-> i, q |-> q]

Log(m, kind, db, i, q) == [m EXCEPT !.events = Append(@, Event(kind, db, i, q))]

Fail(m, error) == [Log(m, "raise", None, 0, Q(error, <<>>, {})) EXCEPT !.error = error]

\* Connection.connection: every access opens a session; it fails when the
\* database does not exist.
Connect(m, db, i) ==
  IF \A d \in m.cluster.databases : d[1] # db
  THEN Fail(m, "OperationalError: database does not exist")
  ELSE [Log(m, "connect", db, i, NoQuery) EXCEPT !.open = @ \cup {db}]

\* The database of the Connection get_connection returns.
ConnectionDatabase(database) ==
  IF database = None \/ database = MasterDatabase THEN MasterDatabase ELSE database

\* A variant of get_connection that clones on every request and keeps nothing.
GetConnectionUncached(m, database, i) ==
  IF database = None \/ database = MasterDatabase THEN m
  ELSE LET m1 == Connect(m, MasterDatabase, i)
       IN IF m1.error # None THEN m1 ELSE Log(m1, "clone", database, i, NoQuery)

\* get_connection: a missing Connection is cloned from the master connection,
\* and clone() reads master.autocommit, which opens a master session.
GetConnection(m, database, i) ==
  IF database = None \/ database = MasterDatabase \/ database \in m.conns THEN m
  ELSE LET m1 == Connect(m, MasterDatabase, i)
       IN IF m1.error # None THEN m1
          ELSE [Log(m1, "clone", database, i, NoQuery) EXCEPT !.conns = @ \cup {database}]

\* A variant of close() that leaves the session as it is.
CloseSkipped(m, db, i) == m

\* Connection.close
Close(m, db, i) == [Log(m, "close", db, i, NoQuery) EXCEPT !.open = @ \ {db}]

\* cursor.execute: the server refuses the query, or applies it.
CursorExecute(m, db, i, q) ==
  IF Refused(m.cluster, db, q) \/ m.fault = 1
  THEN Fail([Log(m, "execute", db, i, q) EXCEPT !.fault = 0], "ProgrammingError")
  ELSE [Log(m, "execute", db, i, q) EXCEPT !.cluster = Effect(@, db, q),
                                           !.fault = IF @ > 0 THEN @ - 1 ELSE 0]

\* Connection.execute: open a session, log the query, run it.
ConnectionExecute(m, db, i, q) ==
  LET m1 == Connect(m, db, i)
  IN IF m1.error # None THEN m1 ELSE CursorExecute(m1, db, i, q)

\* The loop over statement.statements inside `with connection.begin() as tx`:
\* the assertion on the member's database, then Transaction.execute on the
\* cursor opened by __enter__.
RECURSIVE TxExecute(_, _, _, _, _)
TxExecute(m, db, i, stmt, n) ==
  IF n > Len(stmt.queries) \/ m.error # None THEN m
  ELSE IF stmt.tags[n] # None /\ stmt.tags[n] # db THEN Fail(m, "AssertionError")
  ELSE TxExecute(CursorExecute(m, db, i, stmt.queries[n]), db, i, stmt, n + 1)

\* `with connection.begin() as tx`: __enter__ opens a session, __exit__ opens
\* another one to commit or roll back on.
TransactionRun(m, db, i, stmt) ==
  LET m1 == Connect(m, db, i)
      m2 == TxExecute(Log(m1, "begin", db, i, NoQuery), db, i, stmt, 1)
      m3 == Connect([m2 EXCEPT !.error = None], db, i)
  IN IF m1.error # None THEN m1
     ELSE IF m2.error # None
     THEN [Log(m3, "rollback", db, i, NoQuery) EXCEPT !.error = m2.error]
     ELSE Log(m3, "commit", db, i, NoQuery)

IsDropDatabase(stmt) == stmt.kind = "Drop" /\ stmt.obj.type = "Database"

\* execute_stmt (the closure in Setup.execute).  In a dry run the call
\* connection.log_query(query, dry_run=True, database=...) does not match
\* Connection.log_query(self, query) and raises TypeError.
ExecuteStmt(m, db, i, stmt, dry_run) ==
  LET m0 == Log(m, "dispatch", db, i, NoQuery)
      m1 == IF IsDropDatabase(stmt) THEN GetConnection(m0, stmt.obj.name, i) ELSE m0
      m2 == IF IsDropDatabase(stmt) /\ m1.error = None
            THEN Close(m1, ConnectionDatabase(stmt.obj.name), i) ELSE m1
  IN IF dry_run THEN Fail(m0, "TypeError: log_query() got an unexpected keyword argument")
     ELSE IF m2.error # None THEN m2
     ELSE IF stmt.kind = "Transaction" THEN TransactionRun(m2, db, i, stmt)
     ELSE ConnectionExecute(m2, db, i, stmt.queries[1])

\* A variant of the test below that accepts any registered database.
DatabaseIsRegistered(reg, datname) == Contains(reg, DatabaseKey(datname))

\* `database = self.get(Database(datname)); database and database.present`
DatabaseIsPresent(reg, datname) ==
  Contains(reg, DatabaseKey(datname)) /\ Get(reg, DatabaseKey(datname)).present

\* A variant of the loop below that catches a target's failure and goes on
\* with the remaining targets.
RECURSIVE ExecuteOnAllKeepGoing(_, _, _, _, _, _)
ExecuteOnAllKeepGoing(m, reg, n, i, stmt, dry_run) ==
  IF n > Len(reg) THEN m
  ELSE IF reg[n].type # "Database" THEN ExecuteOnAllKeepGoing(m, reg, n + 1, i, stmt, dry_run)
  ELSE IF DatabaseIsPresent(reg, reg[n].name)
  THEN LET m1 == GetConnection([m EXCEPT !.error = None], reg[n].name, i)
           m2 == IF m1.error # None THEN m1
                 ELSE ExecuteStmt(m1, ConnectionDatabase(reg[n].name), i, stmt, dry_run)
       IN ExecuteOnAllKeepGoing([m2 EXCEPT !.error = IF m.error # None THEN m.error ELSE @],
                                reg, n + 1, i, stmt, dry_run)
  ELSE ExecuteOnAllKeepGoing(Log(m, "skip", reg[n].name, i, NoQuery),
                             reg, n + 1, i, stmt, dry_run)

\* The ALL_DATABASES branch of the dispatch loop, over managed_databases from
\* position n on.
RECURSIVE ExecuteOnAll(_, _, _, _, _, _)
ExecuteOnAll(m, reg, n, i, stmt, dry_run) ==
  IF n > Len(reg) \/ m.error # None THEN m
  ELSE IF reg[n].type # "Database" THEN ExecuteOnAll(m, reg, n + 1, i, stmt, dry_run)
  ELSE IF DatabaseIsPresent(reg, reg[n].name)
  THEN LET m1 == GetConnection(m, reg[n].name, i)
       IN ExecuteOnAll(IF m1.error # None THEN m1
                       ELSE ExecuteStmt(m1, ConnectionDatabase(reg[n].name), i, stmt, dry_run),
                       reg, n + 1, i, stmt, dry_run)
  ELSE ExecuteOnAll(Log(m, "skip", reg[n].name, i, NoQuery), reg, n + 1, i, stmt, dry_run)

\* One iteration of `for stmt in self._generate_stmts()`.
DispatchStmt(m, reg, i, stmt, dry_run) ==
  IF stmt.kind = "Raise" THEN Fail(m, stmt.queries[1].op)
  ELSE IF IsOnAllDatabases(stmt) THEN ExecuteOnAll(m, reg, 1, i, stmt, dry_run)
  ELSE LET m1 == GetConnection(m, stmt.database, i)
           m2 == IF IsDropDatabase(stmt) /\ m1.error = None
                 THEN GetConnection(m1, stmt.obj.name, i) ELSE m1
           m3 == IF IsDropDatabase(stmt) /\ m2.error = None
                 THEN Close(m2, ConnectionDatabase(stmt.obj.name), i) ELSE m2
       IN IF m3.error # None THEN m3
          ELSE ExecuteStmt(m3, ConnectionDatabase(stmt.database), i, stmt, dry_run)

(***************************************************************************)
(* Declarations: the constructor calls a caller makes.                     *)
(***************************************************************************)
Group(name, present) ==
  [BlankObject EXCEPT !.type = "Group", !.name = name, !.present = present]

User(name, groups, present) ==
  [BlankObject EXCEPT !.type = "User", !.name = name, !.groups = groups,
                      !.present = present]

GroupUser(group, user, present) ==
  [BlankObject EXCEPT !.type = "GroupUser", !.group = group, !.user = user,
                      !.present = present]

Database(name, owner, present) ==
  [BlankObject EXCEPT !.type = "Database", !.name = name, !.owner = owner,
                      !.present = present]

Schema(database, name, owner, present) ==
  [BlankObject EXCEPT !.type = "Schema", !.database = database, !.name = name,
                      !.owner = owner, !.present = present]

DatabasePrivilege(database, grantee, privileges, present) ==
  [BlankObject EXCEPT !.type = "DatabasePrivilege", !.database = database,
                      !.grantee = grantee, !.privileges = privileges,
                      !.present = present]

SchemaPrivilege(database, schema, grantee, privileges, present) ==
  [BlankObject EXCEPT !.type = "SchemaPrivilege", !.database = database,
                      !.schema = schema, !.grantee = grantee,
                      !.privileges = privileges, !.present = present]

SchemaTablesPrivilege(database, schema, grantee, privileges, present) ==
  [BlankObject EXCEPT !.type = "SchemaTablesPrivilege", !.database = database,
                      !.schema = schema, !.grantee = grantee,
                      !.privileges = privileges, !.present = present]

\* DefaultPrivilege(privilege, grantor): the target's attributes are carried
\* in the record; its privileges are the target's parsed set.
DefaultPrivilege(privilege, grantor, present) ==
  [BlankObject EXCEPT !.type = "DefaultPrivilege", !.database = privilege.database,
                      !.schema = privilege.schema, !.grantee = privilege.grantee,
                      !.privileges = ParsePrivileges(privilege.privileges, privilege.type),
                      !.grantor = grantor, !.present = present]

(***************************************************************************)
(* The declaration scripts the reconciliation runs are explored over, and  *)
(* the clusters they run against.                                          *)
(***************************************************************************)
SelectOnPrivate(present) ==
  SchemaTablesPrivilege("sales", "private", "devops", {"select"}, present)

Programs ==
  { \* a team and its database
    <<Group("devops", TRUE), User("peter", {"devops"}, TRUE),
      Database("sales", "peter", TRUE)>>,
    \* tearing the team down while hr stays
    <<Group("devops", FALSE), User("peter", {"devops"}, FALSE),
      Database("hr", None, TRUE), Database("sales", None, FALSE)>>,
    \* a schema with an owner, its privileges and a default privilege
    <<Group("devops", TRUE), Database("sales", None, TRUE),
      Schema("sales", "private", "devops", TRUE),
      SchemaPrivilege("sales", "private", "devops", {"usage"}, TRUE),
      SelectOnPrivate(TRUE), DefaultPrivilege(SelectOnPrivate(TRUE), "devops", TRUE)>>,
    \* table privileges and a default privilege granted
    <<Group("devops", TRUE), Database("sales", None, TRUE),
      Schema("sales", "private", None, TRUE),
      SelectOnPrivate(TRUE), DefaultPrivilege(SelectOnPrivate(TRUE), "devops", TRUE)>>,
    \* table privileges and a default privilege withdrawn
    <<Group("devops", TRUE), Database("sales", None, TRUE),
      Schema("sales", "private", None, TRUE),
      SelectOnPrivate(FALSE), DefaultPrivilege(SelectOnPrivate(FALSE), "devops", FALSE)>>,
    \* reserved role names
    <<User("postgres", {}, FALSE), Group("pg_monitor", TRUE)>>,
    <<User("admin", {}, FALSE), Group("Postgres", FALSE), Group("postgres", FALSE)>>,
    \* a schema to be dropped
    <<Database("sales", None, TRUE), Schema("sales", "private", None, FALSE)>>,
    \* database privileges given as ALL, and withdrawn
    <<Group("devops", TRUE), Database("sales", None, TRUE),
      DatabasePrivilege("sales", "devops", {"all"}, TRUE)>>,
    <<Group("devops", TRUE), Database("sales", None, TRUE),
      DatabasePrivilege("sales", "devops", {"connect"}, FALSE)>>,
    \* a user leaves while the group and two databases stay
    <<Group("devops", TRUE), User("peter", {"devops"}, FALSE),
      Database("hr", None, TRUE), Database("sales", None, TRUE)>>,
    \* a default privilege whose target names no schema
    <<User("peter", {}, TRUE), Database("sales", None, TRUE),
      Schema("sales", None, None, TRUE),
      SchemaTablesPrivilege("sales", None, "public", {"select"}, TRUE),
      DefaultPrivilege(SchemaTablesPrivilege("sales", None, "public", {"select"}, TRUE),
                       "public", TRUE)>>,
    \* a default privilege withdrawn together with its grantor and its schema
    <<Group("devops", FALSE), Database("sales", None, TRUE),
      Schema("sales", "private", None, FALSE),
      SelectOnPrivate(FALSE), DefaultPrivilege(SelectOnPrivate(FALSE), "devops", FALSE)>> }

\* A server nobody has set up yet.
ClusterFresh == EmptyCluster

\* A server on which the team, its databases and its grants exist.
ClusterSetUp ==
  [groups |-> {"devops", "Postgres"}, users |-> {MasterUser, "postgres", "peter"},
   members |-> {<<"devops", "peter">>},
   databases |-> {<<MasterDatabase, "postgres">>, <<"sales", "devops">>, <<"hr", MasterUser>>},
   schemas |-> {<<"sales", "private", MasterUser>>},
   dbacl |-> {<<"sales", "devops", "CONNECT">>},
   schacl |-> {<<"sales", "private", "devops", "USAGE">>},
   tables |-> {<<"sales", "private", "orders">>},
   tblacl |-> {<<"sales", "private", "devops", "orders", "SELECT">>}]

\* A server that has drifted from the declarations.
ClusterDrifted ==
  [groups |-> {"devops"}, users |-> {MasterUser, "postgres", "peter"},
   members |-> {},
   databases |-> {<<MasterDatabase, "postgres">>, <<"sales", MasterUser>>},
   schemas |-> {<<"sales", "private", MasterUser>>},
   dbacl |-> {<<"sales", "devops", "CONNECT">>, <<"sales", "devops", "CREATE">>},
   schacl |-> {<<"sales", "private", "devops", "CREATE">>},
   tables |-> {<<"sales", "private", "orders">>, <<"sales", "private", "items">>},
   tblacl |-> {<<"sales", "private", "devops", "orders", "SELECT">>}]

Clusters == {ClusterFresh, ClusterSetUp, ClusterDrifted}

(***************************************************************************)
(* The state machine.                                                      *)
(***************************************************************************)
\* The most objects a caller registers, and the most runs of Setup.execute.
MaxObjects == 5
MaxRuns == 2
\* The queries of one dispatch among which the server may refuse one.
MaxFault == 2

VARIABLES
  registry,   \* Setup._objects, in insertion order
  attempt,    \* the latest register call: its declaration and the exception it raised
  pc,         \* "setup", "dispatch" (inside Setup.execute), "done", "failed"
  dry_run,    \* the argument of the current Setup.execute call
  run,        \* how many times Setup.execute has been called
  cluster,    \* the PostgreSQL cluster
  state,      \* Setup._server_state, the snapshot loaded by the current run
  stmts,      \* the statements the current run's generator yields
  pos,        \* the index of the next statement of the dispatch loop
  prev,       \* the statements of the previous run
  conns,      \* databases with a cached Connection (besides the master's)
  open,       \* databases whose Connection holds a live session
  events,     \* what the current run did on its connections
  error,      \* the exception that ended the current run, or None
  graph,      \* a Graph built through new_vertex and add_edge
  sorted,     \* the latest topological_sort_by_kahn call on it
  parsed,     \* the latest parse_privileges call
  classified  \* per position of the stream, the objects _generate_stmts has
              \* classified when it yields that statement

vars == <<registry, attempt, pc, dry_run, run, cluster, state, stmts, pos, prev,
          conns, open, events, error, graph, sorted, parsed, classified>>

\* No parse_privileges call has been made yet.
NotParsed ==
  [called |-> FALSE, arg |-> [kind |-> "none", name |-> "", names |-> {}],
   type |-> "DatabasePrivilege", result |-> {}, raised |-> FALSE]

\* No sort has been called yet.
NotSorted ==
  [called |-> FALSE, on |-> EmptyGraph, after |-> EmptyGraph, order |-> <<>>, error |-> None]

\* After Setup(master_connection): the implicit objects are registered.
Init ==
  /\ registry = ImplicitObjects
  /\ attempt = [decl |-> Group("public", TRUE), error |-> None]
  /\ pc = "setup"
  /\ dry_run = FALSE
  /\ run = 0
  /\ cluster \in Clusters
  /\ state = EmptyState
  /\ stmts = <<>>
  /\ pos = 1
  /\ prev = <<>>
  /\ conns = {}
  /\ open = {}
  /\ events = <<>>
  /\ error = None
  /\ graph = EmptyGraph
  /\ sorted = NotSorted
  /\ parsed = NotParsed
  /\ classified = <<{}>>

\* Constructing an object and passing it to Setup.register (what the helpers
\* Setup.group, Setup.user, ... do).
Register(decl) ==
  /\ pc = "setup"
  /\ Len(registry) <= MaxObjects
  /\ \E outcome \in RegisterOutcomes(decl, registry) :
       /\ attempt' = [decl |-> decl, error |-> outcome[1]]
       /\ registry' = outcome[2]
  /\ UNCHANGED <<pc, dry_run, run, cluster, state, stmts, pos, prev, conns, open,
                 events, error, graph, sorted, parsed, classified>>

\* The registry a script leaves after its first n declarations.
RECURSIVE RegistryAfter(_, _)
RegistryAfter(program, n) ==
  IF n = 0 THEN ImplicitObjects
  ELSE LET reg == RegistryAfter(program, n - 1)
       IN (CHOOSE outcome \in RegisterOutcomes(program[n], reg) : TRUE)[2]

\* The declarations that continue one of the scripts from the current registry.
NextDecls(reg) ==
  UNION {{program[n] : n \in {k \in DOMAIN program : RegistryAfter(program, k - 1) = reg}} :
           program \in Programs}

SetToSeq(S) ==
  CHOOSE seq \in [1..Cardinality(S) -> S] : \A x \in S : \E i \in DOMAIN seq : seq[i] = x

\* SchemaStateProvider.load_schemas for one database: a session and the query
\* on pg_namespace.
LoadSchemas(datname) ==
  <<Event("connect", datname, 0, NoQuery),
    Event("load", datname, 0, Q("SELECT", <<"pg_namespace">>, {}))>>

\* The get_connection call before it: a clone of the master connection unless
\* the database has a cached Connection.
LoadConnection(datname, cached) ==
  IF datname = MasterDatabase \/ datname \in cached THEN <<>>
  ELSE <<Event("connect", MasterDatabase, 0, NoQuery),
         Event("clone", datname, 0, NoQuery)>>

RECURSIVE LoadEach(_, _, _)
LoadEach(datnames, n, cached) ==
  IF n = 0 THEN <<>>
  ELSE LoadEach(datnames, n - 1, cached)
       \o LoadConnection(datnames[n], cached) \o LoadSchemas(datnames[n])

\* What state loading does on its connections: the master's session, and
\* State.load_all, whose load_schemas walks self.databases, every database the
\* server reports (load_schema_privileges, load_schema_tables and
\* load_schema_tables_privileges walk the same databases again).
LoadEvents(c, cached) ==
  <<Event("connect", MasterDatabase, 0, NoQuery)>>
  \o LoadEach(SetToSeq({d[1] : d \in ObservedDatabases(c)}),
              Cardinality({d[1] : d \in ObservedDatabases(c)}), cached)

\* How many objects the first loop of _generate_stmts has classified when the
\* generator stands at statement i of the stream (past its end: all of them;
\* the third loop classifies the same objects again).
ClassifiedAt(objects, stream, i) ==
  IF i \in DOMAIN stream /\ stream[i].pass \in {"create", "update"}
  THEN CHOOSE j \in DOMAIN objects : Key(objects[j]) = stream[i].obj
  ELSE Len(objects)

\* For every position of the stream and for its end, the objects classified
\* by then whose getter reads a defaultdict.
ClassifiedBy(objects, stream) ==
  [i \in 1..(Len(stream) + 1) |->
     {objects[j] : j \in {k \in 1..ClassifiedAt(objects, stream, i) :
                            objects[k].type \in {"GroupUser", "SchemaTablesPrivilege"}}}]

\* Setup.execute up to the first statement: load the snapshot, take a
\* topological order, start the generator.
ExecuteBegin(dry, objects) ==
  /\ pc \in {"setup", "done"}
  /\ run < MaxRuns
  /\ run' = run + 1
  /\ dry_run' = dry
  /\ stmts' = GenerateStmts(objects, LoadServerState(cluster, registry))
  /\ classified' = ClassifiedBy(objects, stmts')
  /\ state' \in ClassifyEach({LoadServerState(cluster, registry)}, classified'[1])
  /\ prev' = stmts
  /\ pos' = 1
  /\ conns' = conns \cup {d[1] : d \in ObservedDatabases(cluster)}
  /\ open' = open \cup {MasterDatabase} \cup {d[1] : d \in ObservedDatabases(cluster)}
  /\ events' = LoadEvents(cluster, conns)
  /\ error' = None
  /\ pc' = IF stmts' = <<>> THEN "done" ELSE "dispatch"
  /\ UNCHANGED <<registry, attempt, cluster, graph, sorted, parsed>>

\* One iteration of the dispatch loop of Setup.execute.
Dispatch(fault) ==
  /\ pc = "dispatch"
  /\ LET m == DispatchStmt([cluster |-> cluster, conns |-> conns, open |-> open,
                            events |-> events, error |-> None, fault |-> fault],
                           registry, pos, stmts[pos], dry_run)
     IN /\ cluster' = m.cluster
        /\ conns' = m.conns
        /\ open' = m.open
        /\ events' = m.events
        /\ error' = m.error
        /\ pos' = IF m.error = None THEN pos + 1 ELSE pos
        /\ pc' = IF m.error # None THEN "failed"
                 ELSE IF pos = Len(stmts) THEN "done" ELSE "dispatch"
        /\ state' \in IF m.error # None THEN {state}
                       ELSE ClassifyEach({state}, classified[pos + 1] \ classified[pos])
  /\ UNCHANGED <<registry, attempt, dry_run, run, stmts, prev, classified, graph, sorted,
                 parsed>>

RegisterNext == \E decl \in NextDecls(registry) : Register(decl)

\* The streams the generator can yield: one per topological order.
Streams(reg, st) == {GenerateStmts(objects, st) : objects \in TopologicalOrders(reg)}

ExecuteNext ==
  \E objects \in TopologicalOrders(registry) :
    \E dry \in BOOLEAN : ExecuteBegin(dry, objects)

DispatchNext == \E fault \in 0..MaxFault : Dispatch(fault)

Next == RegisterNext \/ ExecuteNext \/ DispatchNext

Spec == Init /\ [][Next]_vars

(***************************************************************************)
(* Registration on its own: register calls in any order, failing ones      *)
(* included.                                                               *)
(***************************************************************************)
RegUniverse ==
  {Group("devops", TRUE), Group("devops", FALSE), User("peter", {"devops"}, TRUE),
   User("peter", {}, FALSE), User("peter", {"devops"}, FALSE), User("devops", {}, TRUE),
   Database("sales", "devops", TRUE),
   Database("sales", "alpha", TRUE), Database("hr", MasterUser, TRUE),
   Schema("sales", "private", "peter", TRUE),
   GroupUser("devops", "peter", TRUE),
   DatabasePrivilege("sales", "devops", {"connect", "bogus"}, TRUE),
   DatabasePrivilege("sales", "devops", {}, TRUE)}

RegisterAny == \E decl \in RegUniverse : Register(decl)

NextReg == RegisterAny

SpecReg == Init /\ [][NextReg]_vars

(***************************************************************************)
(* The Graph class on its own: graphs of plain values built with           *)
(* new_vertex and add_edge, cycles and rootless graphs included, and then  *)
(* sorted.                                                                 *)
(***************************************************************************)
\* The most vertices and edges of a graph.
MaxVertices == 3
MaxEdges == 4

GraphValues == <<"a", "b", "c", "d", "e">>

VertexNames == {GraphValues[i] : i \in 1..MaxVertices}

\* graph.new_vertex(value)
GraphNewVertex(value) ==
  /\ ~sorted.called
  /\ graph' = [graph EXCEPT !.vertices = @ \cup {value}]
  /\ UNCHANGED <<registry, attempt, pc, dry_run, run, cluster, state, stmts, pos, prev,
                 conns, open, events, error, sorted, parsed, classified>>

\* graph.add_edge(vertex_from, vertex_to) with plain values: both are looked up
\* in the vertex dict, and a missing one raises KeyError before any change.
GraphAddEdge(vertex_from, vertex_to) ==
  /\ ~sorted.called
  /\ Cardinality(graph.edges) < MaxEdges
  /\ graph' = IF {vertex_from, vertex_to} \subseteq graph.vertices
              THEN [graph EXCEPT !.edges = @ \cup {<<vertex_from, vertex_to>>}]
              ELSE graph
  /\ UNCHANGED <<registry, attempt, pc, dry_run, run, cluster, state, stmts, pos, prev,
                 conns, open, events, error, sorted, parsed, classified>>

\* graph.topological_sort_by_kahn(): the loop removes edges from the graph that
\* clone() returned, and the call returns an order or raises.
GraphSort ==
  /\ ~sorted.called
  /\ \E r \in KahnSort(graph.vertices, graph.edges) :
       /\ graph' = IF Clone = "self" THEN [graph EXCEPT !.edges = r.E] ELSE graph
       /\ sorted' = [called |-> TRUE, on |-> graph, after |-> graph',
                     order |-> r.order, error |-> r.error]
  /\ UNCHANGED <<registry, attempt, pc, dry_run, run, cluster, state, stmts, pos, prev,
                 conns, open, events, error, parsed, classified>>

GraphNewVertexNext == \E value \in VertexNames : GraphNewVertex(value)

GraphAddEdgeNext ==
  \E vertex_from \in VertexNames : \E vertex_to \in VertexNames :
    GraphAddEdge(vertex_from, vertex_to)

NextGraph == GraphNewVertexNext \/ GraphAddEdgeNext \/ GraphSort

\* A Graph is built without a server.
InitGraph == Init /\ cluster = ClusterFresh

SpecGraph == InitGraph /\ [][NextGraph]_vars

(***************************************************************************)
(* parse_privileges on its own, over one name, no name and collections of  *)
(* names in several spellings.                                             *)
(***************************************************************************)
\* The most names of a collection.
MaxNames == 2

Spellings ==
  {"ALL", "all", "TEMP", "temp", "Temp", "TEMPORARY", "CONNECT", "connect", "CREATE",
   "USAGE", "usage", "SELECT", "bogus"}

ParseArgs ==
  {[kind |-> "none", name |-> "", names |-> {}]}
    \cup {[kind |-> "str", name |-> n, names |-> {}] : n \in Spellings \cup {""}}
    \cup {[kind |-> "set", name |-> "", names |-> S] :
            S \in {T \in SUBSET Spellings : Cardinality(T) <= MaxNames}}

\* parse_privileges(privileges, obj_type)
ParseCall(arg, type) ==
  /\ parsed' = [called |-> TRUE, arg |-> arg, type |-> type,
                raised |-> ParseFails(NamesOf(arg), type),
                result |-> IF ParseFails(NamesOf(arg), type) THEN {}
                           ELSE ParsePrivileges(NamesOf(arg), type)]
  /\ UNCHANGED <<registry, attempt, pc, dry_run, run, cluster, state, stmts, pos, prev,
                 conns, open, events, error, graph, sorted, classified>>

NextParse ==
  \E arg \in ParseArgs :
    \E type \in {"DatabasePrivilege", "SchemaPrivilege", "SchemaTablesPrivilege"} :
      ParseCall(arg, type)

\* parse_privileges runs without a server.
InitParse == Init /\ cluster = ClusterFresh

SpecParse == InitParse /\ [][NextParse]_vars

(***************************************************************************)
(* Properties.                                                             *)
(***************************************************************************)
\* The dependency graph of the current registry.
Vertices == GenerateGraph(registry).vertices
Edges == GenerateGraph(registry).edges

\* The positions of the stream that hold statements of object k from the given passes.
StmtsOf(k, passes) == {i \in DOMAIN stmts : stmts[i].obj = k /\ stmts[i].pass \in passes}

\* The statements of object k in one pass, in stream order.
Sub(k, pass) ==
  LET Mine(x) == x.obj = k /\ x.pass = pass
  IN SelectSeq(stmts, Mine)

AllPasses == {"create", "update", "maintain", "drop"}

\* C1 as stated: for every edge u->v, every create, update or maintain
\* statement of u comes after every create, update or maintain statement of v,
\* and every drop statement of u comes before every drop statement of v.
C1_OrderingAcrossPasses ==
  \A e \in Edges :
    /\ \A i \in StmtsOf(e[1], {"create", "update", "maintain"}) :
         \A j \in StmtsOf(e[2], {"create", "update", "maintain"}) : j < i
    /\ \A i \in StmtsOf(e[1], {"drop"}) : \A j \in StmtsOf(e[2], {"drop"}) : i < j

\* C1 amended: for every edge u->v the order holds pass by pass: u's
\* create/update statements come after v's create/update statements, u's
\* maintain statements after v's maintain statements, and u's drop statements
\* before v's drop statements.
C1_OrderingWithinPass ==
  \A e \in Edges :
    /\ \A i \in StmtsOf(e[1], {"create", "update"}) :
         \A j \in StmtsOf(e[2], {"create", "update"}) : j < i
    /\ \A i \in StmtsOf(e[1], {"maintain"}) : \A j \in StmtsOf(e[2], {"maintain"}) : j < i
    /\ \A i \in StmtsOf(e[1], {"drop"}) : \A j \in StmtsOf(e[2], {"drop"}) : i < j

\* A stream in which an edge has statements at both ends in the create pass
\* and in the maintain pass.
C1_Witness ==
  \E e \in Edges :
    /\ StmtsOf(e[1], {"create"}) # {} /\ StmtsOf(e[2], {"create"}) # {}
    /\ StmtsOf(e[1], {"maintain"}) # {} /\ StmtsOf(e[2], {"maintain"}) # {}

PassRank(pass) ==
  CASE pass \in {"create", "update"} -> 1
    [] pass = "maintain" -> 2
    [] OTHER -> 3

\* C2: in the stream of one run every create/update statement precedes every
\* maintain statement, and every maintain statement precedes every drop statement.
C2_PassOrder ==
  \A i \in DOMAIN stmts : \A j \in DOMAIN stmts :
    i < j => PassRank(stmts[i].pass) <= PassRank(stmts[j].pass)

\* A stream that holds statements of all three passes.
C2_Witness ==
  /\ \E i \in DOMAIN stmts : stmts[i].pass \in {"create", "update"}
  /\ \E i \in DOMAIN stmts : stmts[i].pass = "maintain"
  /\ \E i \in DOMAIN stmts : stmts[i].pass = "drop"

\* C3: every registered object marked present has all its dependencies
\* registered and marked present, after any sequence of register calls.
C3_RegistryInvariant ==
  \A i \in DOMAIN registry :
    registry[i].present =>
      \A d \in registry[i].deps : Contains(registry, d) /\ Get(registry, d).present

\* A failed register call has just returned, and the registry holds a present
\* object with dependencies next to an absent object.
C3_Witness ==
  /\ attempt.error # None
  /\ \E i \in DOMAIN registry : registry[i].present /\ registry[i].deps # {}
  /\ \E i \in DOMAIN registry : ~registry[i].present

\* The statements of one run kept apart from their position: a set.
PassSet(stream, passes) == {stream[i] : i \in {j \in DOMAIN stream : stream[j].pass \in passes}}

\* C4 as stated: a run that follows a completed run of the same declaration
\* emits no create, update or drop statement and the same set of maintain
\* statements as the run before it.
C4_Idempotence ==
  run >= 2 =>
    /\ PassSet(stmts, {"create", "update", "drop"}) = {}
    /\ PassSet(stmts, {"maintain"}) = PassSet(prev, {"maintain"})

\* The second run of a declaration whose first run executed statements.
C4_Witness ==
  /\ run = 2
  /\ ~dry_run
  /\ prev # <<>>
  /\ PassSet(stmts, {"drop"}) # {}

\* The execute_stmt calls made for statement i on the connection to database d.
Dispatches(i, d) ==
  {k \in DOMAIN events :
     events[k].kind = "dispatch" /\ events[k].stmt = i /\ events[k].db = d}

DatabaseNamesSeen ==
  ManagedDatabases(registry) \cup {d[1] : d \in cluster.databases} \cup {"sales", "hr"}

RegisteredPresent(d) ==
  \E i \in DOMAIN registry :
    registry[i].type = "Database" /\ registry[i].name = d /\ registry[i].present

\* C5: a statement tagged ALL_DATABASES is dispatched exactly once to each
\* Database registered and marked present, and never to any other database.
\* The first conjunct covers the statements whose dispatch has completed, the
\* second every dispatch made so far.
C5_AllDatabasesRouting ==
  /\ \A i \in 1..(pos - 1) :
       (i \in DOMAIN stmts /\ run > 0 /\ stmts[i].database = ALL_DATABASES) =>
         \A d \in DatabaseNamesSeen :
           Cardinality(Dispatches(i, d)) = IF RegisteredPresent(d) THEN 1 ELSE 0
  /\ \A k \in DOMAIN events :
       (events[k].kind = "dispatch" /\ stmts[events[k].stmt].database = ALL_DATABASES)
         => RegisteredPresent(events[k].db)

\* An ALL_DATABASES statement has been dispatched while one registered
\* database is marked present and another is marked absent.
C5_Witness ==
  /\ \E i \in 1..(pos - 1) :
       /\ i \in DOMAIN stmts
       /\ stmts[i].database = ALL_DATABASES
       /\ \E d \in DatabaseNamesSeen : Dispatches(i, d) # {}
  /\ \E i \in DOMAIN registry : registry[i].type = "Database" /\ ~registry[i].present
  /\ ~dry_run

IsDropDatabaseEvent(ev) ==
  ev.kind = "execute" /\ ev.q.op = "DROP" /\ ev.q.args[1] = "DATABASE"

\* C6: whenever DROP DATABASE d is executed, the connection to d was closed
\* before it and no session to d was opened between that close and the DROP.
C6_DropSafety ==
  \A k \in DOMAIN events :
    IsDropDatabaseEvent(events[k]) =>
      \E j \in 1..(k - 1) :
        /\ events[j].kind = "close"
        /\ events[j].db = events[k].q.args[2]
        /\ \A l \in (j + 1)..(k - 1) :
             ~(events[l].kind = "connect" /\ events[l].db = events[k].q.args[2])

\* DROP DATABASE d has been executed in a run that had opened a session to d.
C6_Witness ==
  \E k \in DOMAIN events :
    /\ IsDropDatabaseEvent(events[k])
    /\ \E j \in 1..(k - 1) :
         events[j].kind = "connect" /\ events[j].db = events[k].q.args[2]

\* C7 as stated: a dry run goes through the whole stream, logging every
\* statement and executing none.
C7_DryRunLogsOnly ==
  (dry_run /\ run > 0) =>
    /\ pc # "failed"
    /\ \A k \in DOMAIN events : events[k].kind \notin {"execute", "begin", "commit"}
    /\ \A i \in 1..(pos - 1) :
         \E k \in DOMAIN events : events[k].kind = "log" /\ events[k].stmt = i

\* A dry run over a stream that is not empty has ended.
C7_Witness == dry_run /\ stmts # <<>> /\ pc \in {"done", "failed"}

\* C8: an object contributes the output of its create generator iff it is
\* declared present and observed ABSENT or UNKNOWN, of its update generator iff
\* present and DIFFERENT, of its drop generator iff declared absent and observed
\* PRESENT or UNKNOWN, and no create, update or drop statement otherwise.
C8_EmissionTable ==
  run > 0 =>
    \A o \in Vertices :
      LET s == GetCurrentState(state, o)
      IN /\ Sub(Key(o), "create") =
              IF o.present /\ s \in {IS_ABSENT, IS_UNKNOWN}
              THEN Tag(StmtsToCreate(o), "create") ELSE <<>>
         /\ Sub(Key(o), "update") =
              IF o.present /\ s = IS_DIFFERENT
              THEN Tag(StmtsToUpdate(o), "update") ELSE <<>>
         /\ Sub(Key(o), "drop") =
              IF ~o.present /\ s \in {IS_PRESENT, IS_UNKNOWN}
              THEN Tag(StmtsToDrop(o), "drop") ELSE <<>>

\* One run in which an object declared absent is already absent, another is
\* created and a third is dropped.
C8_Witness ==
  /\ run > 0
  /\ \E o \in Vertices : ~o.present /\ GetCurrentState(state, o) = IS_ABSENT
                         /\ StmtsOf(Key(o), AllPasses) = {}
  /\ \E o \in Vertices : o.present /\ GetCurrentState(state, o) = IS_ABSENT
                         /\ StmtsOf(Key(o), {"create"}) # {}
  /\ \E o \in Vertices : ~o.present /\ GetCurrentState(state, o) = IS_PRESENT
                         /\ StmtsOf(Key(o), {"drop"}) # {}

\* The role names the guard is about.
Reserved(name) ==
  \/ Lower(name) \in {"public", "postgres"}
  \/ StartsWithPg(name)
  \/ name = MasterUser

\* C9: a Group or User with a reserved name has no create, update or drop
\* statement in the stream, whatever its observed state and flag; a reserved
\* Group declared absent has no statement at all.
C9_ReservedRoleGuard ==
  \A o \in Vertices :
    (o.type \in {"Group", "User"} /\ Reserved(o.name)) =>
      /\ StmtsOf(Key(o), {"create", "update", "drop"}) = {}
      /\ (o.type = "Group" /\ ~o.present) => StmtsOf(Key(o), AllPasses) = {}

\* A run over a reserved role declared absent that the snapshot shows present:
\* the combination in which an unreserved role would be dropped.
C9_Witness ==
  /\ run > 0
  /\ \E o \in Vertices :
       /\ o.type \in {"Group", "User"} /\ Reserved(o.name)
       /\ ~o.present /\ GetCurrentState(state, o) = IS_PRESENT
       /\ Lower(o.name) # o.name

\* What the claim calls a bad registration, against the registry before the call.
BadDeclaration(decl, reg) ==
  \/ decl.type \in LinkTypes
  \/ Key(Construct(decl, reg)) \in Keys(reg)
  \/ \E d \in Dependencies(decl, reg) : ~Contains(reg, d)
  \/ decl.present /\ \E d \in Dependencies(decl, reg) :
                       Contains(reg, d) /\ ~Get(reg, d).present
  \/ /\ RoleToResolve(decl) # None
     /\ ~Contains(reg, GroupKey(RoleToResolve(decl)))
     /\ ~Contains(reg, UserKey(RoleToResolve(decl)))

\* C10: a register call with a duplicate key, a link entity, an unregistered
\* dependency, a present object over an absent dependency or an unresolvable
\* role raises, leaves the registry as it was and sends nothing to the cluster;
\* and no failing call changes the registry.
C10_RegistrationFailsFast ==
  [][pc' = "setup" =>
       /\ BadDeclaration(attempt'.decl, registry) => attempt'.error # None
       /\ attempt'.error # None =>
            /\ registry' = registry
            /\ cluster' = cluster
            /\ events' = events
            /\ open' = open]_vars

\* Database(sales, owner=alpha) has just been refused while objects are registered.
C10_Witness ==
  /\ attempt.decl = Database("sales", "alpha", TRUE)
  /\ attempt.error = "ValueError: ambiguous role"
  /\ Len(registry) > 2

\* The position of the first "raise" event of the run, 0 when there is none.
RaisedAt ==
  IF \E k \in DOMAIN events : events[k].kind = "raise"
  THEN CHOOSE k \in DOMAIN events :
         events[k].kind = "raise" /\ \A j \in 1..(k - 1) : events[j].kind # "raise"
  ELSE 0

\* The present registered databases: the targets of an ALL_DATABASES statement.
Targets == {d \in ManagedDatabases(registry) : RegisteredPresent(d)}

\* C11: once a statement has failed the run is over with the error: nothing is
\* dispatched or executed after the failure (only the failing transaction's
\* own rollback follows it), no later statement of the stream has any event,
\* and the run takes no further step.
C11_FailureAborts ==
  [][(pc = "failed" => UNCHANGED vars)
     /\ (pc' = "failed" /\ ~dry_run' =>
          /\ error' # None
          /\ RaisedAt' > 0
          /\ \A k \in DOMAIN events' :
               /\ events'[k].stmt <= pos'
               /\ k > RaisedAt' => events'[k].kind \in {"connect", "rollback"}
          /\ pos' = pos /\ stmts' = stmts)]_vars

\* A query sent to the first target of an ALL_DATABASES statement has failed
\* while another target and later statements of the stream were still to come.
C11_Witness ==
  /\ pc = "failed" /\ ~dry_run
  /\ stmts[pos].database = ALL_DATABASES
  /\ pos < Len(stmts)
  /\ Cardinality(Targets) = 2
  /\ Cardinality({k \in DOMAIN events :
                    events[k].kind = "dispatch" /\ events[k].stmt = pos}) = 1
  /\ \E k \in DOMAIN events : events[k].kind = "execute" /\ events[k].stmt < pos

\* The session an event ran on: the latest session opened to its database.
Session(k) ==
  CHOOSE j \in 1..k :
    /\ events[j].kind = "connect" /\ events[j].db = events[k].db
    /\ \A l \in (j + 1)..k : ~(events[l].kind = "connect" /\ events[l].db = events[k].db)

\* The events of the transaction that event b begins.
MembersOf(b) ==
  {k \in DOMAIN events : k > b /\ events[k].kind = "execute" /\ events[k].stmt = events[b].stmt}

EndersOf(b) ==
  {k \in DOMAIN events :
     k > b /\ events[k].kind \in {"commit", "rollback"} /\ events[k].stmt = events[b].stmt}

\* C12 as stated: a dispatched transaction runs on one connection: its members
\* run in their listed order on the session the transaction began on, and one
\* commit (every member succeeded) or one rollback (a member failed, no member
\* after it ran) on that same session ends it.
C12_TransactionOnOneConnection ==
  \A b \in DOMAIN events :
    events[b].kind = "begin" =>
      LET qs == stmts[events[b].stmt].queries
          members == MembersOf(b)
      IN /\ Cardinality(EndersOf(b)) = 1
         /\ \A e \in EndersOf(b) :
              LET failed == \E k \in (b + 1)..(e - 1) : events[k].kind = "raise"
              IN /\ events[e].kind = (IF failed THEN "rollback" ELSE "commit")
                 /\ \A k \in members : k < e
                 /\ ~failed => Cardinality(members) = Len(qs)
                 /\ Session(e) = Session(b)
         /\ \A k \in members :
              /\ Session(k) = Session(b)
              /\ k - b \in DOMAIN qs /\ events[k].q = qs[k - b]

\* A transaction of two members whose second member the server refused, and
\* which ended with a rollback.
C12_Witness ==
  \E b \in DOMAIN events :
    /\ events[b].kind = "begin"
    /\ Len(stmts[events[b].stmt].queries) = 2
    /\ Cardinality(MembersOf(b)) = 2
    /\ \E e \in EndersOf(b) : events[e].kind = "rollback"

\* C13 as stated: the registry and the snapshot determine the statement
\* sequence of a run: the generator can yield one stream only.
C13_Determinism ==
  run > 0 => Cardinality(Streams(registry, state)) = 1

\* A run over a registry in which two objects are ready at the same time in
\* the topological sort.
C13_Witness ==
  /\ run > 0
  /\ Cardinality(TopologicalOrders(registry)) > 1
  /\ stmts # <<>>

\* u reaches v along one or more edges of E.
RECURSIVE ReachFrom(_, _)
ReachFrom(E, seen) ==
  LET more == seen \cup {e[2] : e \in {x \in E : x[1] \in seen}}
  IN IF more = seen THEN seen ELSE ReachFrom(E, more)

Reaches(E, u, v) == v \in ReachFrom(E, {e[2] : e \in {x \in E : x[1] = u}})

HasCycle(g) == \E v \in g.vertices : Reaches(g.edges, v, v)

HasRoot(g) == \E v \in g.vertices : \A e \in g.edges : e[1] # v

\* C14: on a non-empty acyclic graph the sort returns a list that holds every
\* vertex exactly once and every dependency before the vertices that depend
\* on it.
C14_SortIsTopological ==
  (sorted.called /\ sorted.on.vertices # {} /\ ~HasCycle(sorted.on)) =>
    /\ sorted.error = None
    /\ Len(sorted.order) = Cardinality(sorted.on.vertices)
    /\ {sorted.order[i] : i \in DOMAIN sorted.order} = sorted.on.vertices
    /\ \A e \in sorted.on.edges :
         \E i \in DOMAIN sorted.order : \E j \in DOMAIN sorted.order :
           sorted.order[i] = e[2] /\ sorted.order[j] = e[1] /\ i < j

\* An acyclic graph of three vertices with a vertex that two others depend on
\* has been sorted.
C14_Witness ==
  /\ sorted.called /\ ~HasCycle(sorted.on)
  /\ Cardinality(sorted.on.vertices) = 3
  /\ \E v \in sorted.on.vertices :
       Cardinality({e \in sorted.on.edges : e[2] = v}) = 2

\* The no-root and the cycle conditions of a graph that was sorted.
SortShouldFail == ~HasRoot(sorted.on) \/ HasCycle(sorted.on)

C15_WitnessNoRoot ==
  /\ sorted.called /\ sorted.error = "ValueError: no vertex with no incoming edges"
  /\ sorted.on.vertices # {}

\* The names of the latest parse_privileges call.
ParsedNames ==
  IF parsed.arg.kind = "str" THEN {parsed.arg.name} \ {""} ELSE parsed.arg.names

\* What one name stands for: the full set for ALL in any case, TEMPORARY for
\* TEMP in any case, and the upper-cased name otherwise.
StandsFor(n, type) ==
  IF Upper(n) = "ALL" THEN PrivALL(type)
  ELSE IF Upper(n) = "TEMP" THEN {"TEMPORARY"}
  ELSE {Upper(n)}

\* C16: parse_privileges returns the union of what the names stand for, fails
\* exactly when a name stands for something outside the full set of the class,
\* and every result is a subset of the full set.
C16_ParsePrivileges ==
  parsed.called =>
    /\ parsed.raised <=>
         \E n \in ParsedNames : ~(StandsFor(n, parsed.type) \subseteq PrivALL(parsed.type))
    /\ ~parsed.raised =>
         /\ parsed.result = UNION {StandsFor(n, parsed.type) : n \in ParsedNames}
         /\ parsed.result \subseteq PrivALL(parsed.type)

\* A collection with the alias in lower case and another name was parsed for
\* the class that has TEMPORARY.
C16_Witness ==
  /\ parsed.called /\ ~parsed.raised
  /\ parsed.arg.kind = "set" /\ parsed.arg.names = {"temp", "connect"}
  /\ parsed.result = {"TEMPORARY", "CONNECT"}

\* The alias was refused for a class without TEMPORARY.
C16_WitnessFails ==
  /\ parsed.called /\ parsed.raised
  /\ parsed.arg.kind = "str" /\ parsed.arg.name = "TEMP"
  /\ parsed.type = "SchemaPrivilege"

GrantingClasses == {"DatabasePrivilege", "SchemaPrivilege", "SchemaTablesPrivilege"}

\* The privilege objects of the registry that are declared present and were
\* observed absent or different.
ToGrant ==
  {o \in Vertices : /\ o.type \in GrantingClasses
                    /\ o.present
                    /\ GetCurrentState(state, o) \in {IS_ABSENT, IS_DIFFERENT}}

IsRevokeAll(q, o) ==
  /\ q.op \in {"REVOKE ALL ON DATABASE", "REVOKE ALL ON SCHEMA", "REVOKE ALL ON ALL TABLES"}
  /\ q.args[2] = o.grantee

IsGrant(q, o) ==
  /\ q.op \in {"GRANT ON DATABASE", "GRANT ON SCHEMA", "GRANT ON ALL TABLES"}
  /\ q.args[2] = o.grantee
  /\ q.privs = o.privileges

\* C17: a privilege declared present and observed absent or different gets
\* exactly one statement in the stream, a transaction whose members are
\* REVOKE ALL and then GRANT when the requested set is not the full set of the
\* class, and the GRANT alone when it is.
C17_GrantTransaction ==
  run > 0 =>
    \A o \in ToGrant :
      LET own == StmtsOf(Key(o), AllPasses)
      IN /\ Cardinality(own) = 1
         /\ \A i \in own :
              LET qs == stmts[i].queries
              IN /\ stmts[i].kind = "Transaction"
                 /\ IF o.privileges # PrivALL(o.type)
                    THEN Len(qs) = 2 /\ IsRevokeAll(qs[1], o) /\ IsGrant(qs[2], o)
                    ELSE Len(qs) = 1 /\ IsGrant(qs[1], o)

\* A run whose stream grants part of a class to a grantee observed with
\* different privileges.
C17_Witness ==
  /\ run > 0
  /\ \E o \in ToGrant : /\ GetCurrentState(state, o) = IS_DIFFERENT
                         /\ o.privileges # PrivALL(o.type)
                         /\ StmtsOf(Key(o), AllPasses) # {}

\* A run whose stream grants a whole class.
C17_WitnessAll ==
  /\ run > 0
  /\ \E o \in ToGrant : o.privileges = PrivALL(o.type) /\ StmtsOf(Key(o), AllPasses) # {}

\* The execute_stmt calls of the run for a query with the given verb.
DispatchesFor(op) ==
  {k \in DOMAIN events :
     events[k].kind = "dispatch" /\ stmts[events[k].stmt].queries[1].op = op}

QueryAt(k) == stmts[events[k].stmt].queries[1]

Leaves(u) == {k \in DispatchesFor("ALTER GROUP DROP USER") : QueryAt(k).args[2] = u}

Reassigns(u) ==
  {k \in DispatchesFor("REASSIGN OWNED BY") : QueryAt(k).args = <<u, MasterUser>>}

RevokesOnAll(u) ==
  {k \in DispatchesFor("REVOKE ALL ON SCHEMA") :
     QueryAt(k).args = <<"public", u>> /\ stmts[events[k].stmt].database = ALL_DATABASES}

RevokesOnMaster(u) ==
  {k \in DispatchesFor("REVOKE ALL ON SCHEMA") :
     QueryAt(k).args = <<"public", u>> /\ stmts[events[k].stmt].database = MasterDatabase}

UserDrops(u) == {k \in DispatchesFor("DROP") : QueryAt(k).args = <<"USER", u>>}

\* The managed users declared absent and observed present.
LeavingUsers ==
  {o \in Vertices : /\ o.type = "User" /\ ~o.present /\ IsManaged(o)
                    /\ GetCurrentState(state, o) = IS_PRESENT}

\* The observed memberships of user u that the registry declares.
MembershipsOf(u) ==
  {o \in Vertices : /\ o.type = "GroupUser" /\ o.user = u
                    /\ GetCurrentState(state, o) = IS_PRESENT}

\* C18: when DROP USER u is dispatched for a managed user declared absent and
\* observed present, the run has before it, in this order: ALTER GROUP g DROP
\* USER u for each membership, REASSIGN OWNED BY u TO the master user once on
\* every present managed database, REVOKE ALL ON SCHEMA public FROM u once on
\* every present managed database, and the same REVOKE on the master database.
C18_RoleRemovalSequence ==
  (run > 0 /\ ~dry_run) =>
    \A o \in LeavingUsers : \A kd \in UserDrops(o.name) :
      LET u == o.name
      IN /\ \A gu \in MembershipsOf(u) :
              \E k \in Leaves(u) :
                /\ QueryAt(k).args[1] = gu.group
                /\ \A r \in Reassigns(u) \cup RevokesOnAll(u) \cup RevokesOnMaster(u) : k < r
                /\ k < kd
         /\ \A d \in Targets :
              /\ Cardinality({k \in Reassigns(u) : events[k].db = d}) = 1
              /\ Cardinality({k \in RevokesOnAll(u) : events[k].db = d}) = 1
         /\ \A r \in Reassigns(u) : \A v \in RevokesOnAll(u) : r < v
         /\ Cardinality(RevokesOnMaster(u)) = 1
         /\ \A m \in RevokesOnMaster(u) :
              /\ events[m].db = MasterDatabase
              /\ \A v \in Reassigns(u) \cup RevokesOnAll(u) : v < m
              /\ m < kd

\* A run has dropped a user who was a member of a group while two managed
\* databases are present.
C18_Witness ==
  /\ run > 0 /\ ~dry_run /\ pc = "done"
  /\ Cardinality(Targets) = 2
  /\ \E o \in LeavingUsers : UserDrops(o.name) # {} /\ MembershipsOf(o.name) # {}

\* C19 as stated: from construction on, the registry holds the pseudo-group
\* public and a User for the login name of the master connection.
C19_ImplicitObjects ==
  /\ Contains(registry, GroupKey("public"))
  /\ Contains(registry, UserKey(MasterUser))

\* A database owned by the master user has just been refused because no role
\* of that name is registered.
C19_Witness ==
  /\ attempt.decl = Database("hr", MasterUser, TRUE)
  /\ attempt.error = "ValueError: ambiguous role"
  /\ ~Contains(registry, UserKey(MasterUser))

\* The events of state loading.
LoadingEvents == {k \in DOMAIN events : events[k].stmt = 0 /\ events[k].kind \in {"connect", "load"}}

\* C20 as stated: state loading opens no session to and runs no query on a
\* database that no registered Database names.
C20_LoadingSkipsUnmanaged ==
  \A k \in LoadingEvents :
    events[k].db = MasterDatabase \/ events[k].db \in ManagedDatabases(registry)

\* A run whose loading queried a database of the server that the registry
\* does not name, while it names another.
C20_Witness ==
  /\ run > 0
  /\ ManagedDatabases(registry) # {}
  /\ \E k \in LoadingEvents :
       /\ events[k].kind = "load"
       /\ events[k].db \notin ManagedDatabases(registry) \cup {MasterDatabase}

\* C21 as stated: once a run has loaded its snapshot, no step of the run
\* changes the snapshot or the registry.
C21_SnapshotFrozen ==
  [][(run > 0 /\ run' = run) => (state' = state /\ registry' = registry)]_vars

\* A run has classified a membership of a group that was observed without
\* members, and the snapshot holds a key for the group.
C21_Witness ==
  /\ run > 0
  /\ \E g \in state.group_users_keys : \A m \in state.group_users : m[1] # g

\* A run has compared table privileges and the snapshot holds a key for a
\* table on which the grantee has no grant.
C21_WitnessTables ==
  /\ run > 0
  /\ \E k \in state.stp_keys :
       \A x \in state.schema_tables_privileges : <<x[1], x[2], x[3], x[4]>> # k

GenerationError == "ValueError: global default privileges"

\* C22 as stated: when a run ends with the error of a default privilege whose
\* target has no schema, no statement of the run has been dispatched.
C22_FailsBeforeDispatch ==
  (pc = "failed" /\ error = GenerationError) =>
    \A k \in DOMAIN events : events[k].kind # "dispatch"

\* A run has ended with that error after it executed statements.
C22_Witness ==
  /\ pc = "failed" /\ error = GenerationError /\ ~dry_run
  /\ \E k \in DOMAIN events : events[k].kind = "execute"
  /\ \E i \in DOMAIN registry :
       registry[i].type = "DefaultPrivilege" /\ ~Truthy(registry[i].schema)

\* No statement generator of the run has raised.
GenerationCompleted == \A i \in DOMAIN stmts : stmts[i].kind # "Raise"

IsParentOf(p, v) ==
  CASE v.type = "GroupUser" -> p.type = "User" /\ p.name = v.user /\ v.group \in p.groups
    [] v.type = "DatabaseOwner" ->
         p.type = "Database" /\ p.name = v.database /\ p.owner = v.owner
    [] v.type = "SchemaOwner" ->
         p.type = "Schema" /\ p.database = v.database /\ p.name = v.schema
           /\ p.owner = v.owner
    [] OTHER -> FALSE

\* The two endpoints of a link vertex: sets of keys, one of each must be the
\* head of an edge (an owner is a role of either kind).
Endpoints(v) ==
  CASE v.type = "GroupUser" -> {{GroupKey(v.group)}, {UserKey(v.user)}}
    [] v.type = "DatabaseOwner" ->
         {{DatabaseKey(v.database)}, {GroupKey(v.owner), UserKey(v.owner)}}
    [] v.type = "SchemaOwner" ->
         {{SchemaKey(v.database, v.schema)}, {GroupKey(v.owner), UserKey(v.owner)}}
    [] OTHER -> {}

C24_LinksOnlyInGraph ==
  /\ \A i \in DOMAIN registry : registry[i].type \notin LinkTypes
  /\ LET g == GenerateGraph(registry)
     IN g.error = None =>
          /\ \A v \in g.vertices :
               v.type \in LinkTypes =>
                 /\ \E i \in DOMAIN registry :
                      IsParentOf(registry[i], v) /\ v.present = registry[i].present
                 /\ \A ends \in Endpoints(v) :
                      \E k \in ends : k \in VertexKeys(g) /\ <<Key(v), k>> \in g.edges
          /\ \A i \in DOMAIN registry :
               \A l \in LinkDecls(registry[i]) : Key(l) \in VertexKeys(g)

\* A link was offered to register and refused, while the graph holds the link
\* of an absent user and the link of a database's owner.
C24_Witness ==
  /\ attempt.decl.type \in LinkTypes
  /\ attempt.error # None
  /\ LET g == GenerateGraph(registry)
     IN /\ g.error = None
        /\ \E v \in g.vertices : v.type = "GroupUser" /\ ~v.present
        /\ \E v \in g.vertices : v.type = "DatabaseOwner"

(***************************************************************************)
(* C25.  A DatabasePrivilege or SchemaPrivilege is classified PRESENT iff  *)
(* the grantee has an observed privilege set on the database (schema) and  *)
(* it equals the desired set; DIFFERENT iff the grantee has a non-empty    *)
(* observed set that is not the desired set; ABSENT in every other case.   *)
(***************************************************************************)
\* The privileges the snapshot holds for the grantee of a privilege object.
ObservedPrivileges(st, o) ==
  IF o.type = "DatabasePrivilege"
  THEN {x[3] : x \in {y \in st.database_privileges :
                        y[1] = o.database /\ y[2] = o.grantee}}
  ELSE {x[4] : x \in {y \in st.schema_privileges :
                        y[1] = o.database /\ y[2] = o.schema /\ y[3] = o.grantee}}

ExpectedPrivilegeState(st, o) ==
  LET observed == ObservedPrivileges(st, o)
  IN IF observed # {} /\ observed = o.privileges THEN IS_PRESENT
     ELSE IF observed # {} THEN IS_DIFFERENT
     ELSE IS_ABSENT

ObservedTables(st, o) ==
  {x[3] : x \in {y \in st.schema_tables : y[1] = o.database /\ y[2] = o.schema}}

\* The grantee's observed privileges on one table.
ObservedOnTable(st, o, t) ==
  {x[5] : x \in {y \in st.schema_tables_privileges :
                   /\ y[1] = o.database /\ y[2] = o.schema
                   /\ y[3] = o.grantee /\ y[4] = t}}

\* The grantee has an entry in the observed table privileges of the schema.
GranteeAppears(st, o) ==
  \E y \in st.schema_tables_privileges :
    y[1] = o.database /\ y[2] = o.schema /\ y[3] = o.grantee

ExactOnEveryTable(st, o) ==
  \A t \in ObservedTables(st, o) : ObservedOnTable(st, o, t) = o.privileges

ObservedOwners(st, o) ==
  IF o.type = "DatabaseOwner"
  THEN {d[2] : d \in {x \in st.databases : x[1] = o.database}}
  ELSE {x[3] : x \in {y \in st.schemas : y[1] = o.database /\ y[2] = o.schema}}

C27_OwnerNeverDifferent ==
  run > 0 =>
    \A o \in Vertices :
      o.type \in {"DatabaseOwner", "SchemaOwner"} =>
        LET s == GetCurrentState(state, o)
            owners == ObservedOwners(state, o)
        IN /\ s # IS_DIFFERENT
           /\ s = IS_PRESENT <=> o.owner \in owners
           /\ s = IS_ABSENT <=> o.owner \notin owners
           /\ (o.present /\ owners # {} /\ o.owner \notin owners) =>
                /\ Sub(Key(o), "update") = <<>>
                /\ Len(Sub(Key(o), "create")) = 1
                /\ Sub(Key(o), "create")[1].queries[1].op =
                     IF o.type = "DatabaseOwner" THEN "ALTER DATABASE OWNER TO"
                     ELSE "ALTER SCHEMA OWNER TO"
                /\ Sub(Key(o), "create")[1].queries[1].args[Len(Sub(Key(o), "create")[1].queries[1].args)]
                     = o.owner

\* A run that observes a present database or schema under an owner other than
\* the declared one.
C27_Witness ==
  /\ run > 0
  /\ \E o \in Vertices :
         /\ o.type \in {"DatabaseOwner", "SchemaOwner"} /\ o.present
         /\ ObservedOwners(state, o) # {}
         /\ o.owner \notin ObservedOwners(state, o)
         /\ StmtsOf(Key(o), {"create"}) # {}

(***************************************************************************)
(* C28.  A DefaultPrivilege is classified ABSENT when its grantor is       *)
(* observed neither as a group nor as a user, or when the database or the  *)
(* schema of its target is missing from the observed schemas, and UNKNOWN  *)
(* otherwise.  One declared absent has its revoke-all statement in the     *)
(* stream only when grantor and schema are observed, and that statement is *)
(* dispatched before every drop statement of the grantor role and of the   *)
(* schema.                                                                 *)
(***************************************************************************)
GrantorObserved(st, o) == o.grantor \in st.groups \/ o.grantor \in st.users

TargetSchemaObserved(st, o) ==
  \E x \in st.schemas : x[1] = o.database /\ x[2] = o.schema

\* The dispatches of the statements of object k in the given pass.
DispatchesOf(k, pass) ==
  {e \in DOMAIN events :
     /\ events[e].kind = "dispatch"
     /\ stmts[events[e].stmt].obj = k
     /\ stmts[events[e].stmt].pass = pass}

C28_DefaultPrivilegeState ==
  run > 0 =>
    \A o \in Vertices :
      o.type = "DefaultPrivilege" =>
        /\ GetCurrentState(state, o) =
             IF GrantorObserved(state, o) /\ TargetSchemaObserved(state, o)
             THEN IS_UNKNOWN ELSE IS_ABSENT
        /\ ~o.present =>
             /\ StmtsOf(Key(o), AllPasses) # {} =>
                  GrantorObserved(state, o) /\ TargetSchemaObserved(state, o)
             /\ \A i \in StmtsOf(Key(o), AllPasses) :
                  /\ stmts[i].pass = "drop"
                  /\ stmts[i].queries[1].op = "ALTER DEFAULT PRIVILEGES REVOKE"
             /\ \A r \in DispatchesOf(Key(o), "drop") :
                  \A d \in DispatchesOf(GroupKey(o.grantor), "drop")
                           \cup DispatchesOf(UserKey(o.grantor), "drop")
                           \cup DispatchesOf(SchemaKey(o.database, o.schema), "drop") :
                    r < d

\* A run has dispatched the revoke-all of an absent default privilege and then
\* dropped its schema and its grantor.
C28_Witness ==
  /\ run > 0 /\ ~dry_run
  /\ \E o \in Vertices :
       /\ o.type = "DefaultPrivilege" /\ ~o.present
       /\ GetCurrentState(state, o) = IS_UNKNOWN
       /\ DispatchesOf(Key(o), "drop") # {}
       /\ DispatchesOf(GroupKey(o.grantor), "drop") # {}
       /\ DispatchesOf(SchemaKey(o.database, o.schema), "drop") # {}

(***************************************************************************)
(* C29.  get_connection routes a statement tagged with no database or with *)
(* the master's database name to the master connection and one tagged with *)
(* another name d to a connection to d cloned from the master connection.  *)
(* A name is cloned at most once over a run: a step clones d exactly when  *)
(* d has no cached connection, the cache never loses an entry, and later   *)
(* requests for d are served from it.                                      *)
(***************************************************************************)
\* The number of clones for database d among the events.
ClonesOf(evs, d) ==
  Cardinality({k \in DOMAIN evs : evs[k].kind = "clone" /\ evs[k].db = d})

C29_Routing ==
  /\ \A k \in DOMAIN events :
       (events[k].kind = "dispatch" /\ ~IsOnAllDatabases(stmts[events[k].stmt])) =>
         LET tag == stmts[events[k].stmt].database
         IN /\ events[k].db = IF tag = None \/ tag = MasterDatabase
                              THEN MasterDatabase ELSE tag
            /\ events[k].db # MasterDatabase => events[k].db \in conns
  /\ \A k \in DOMAIN events :
       events[k].kind = "clone" =>
         /\ events[k].db \notin {None, MasterDatabase}
         /\ events[k].db \in conns
         /\ k > 1 /\ events[k - 1].kind = "connect" /\ events[k - 1].db = MasterDatabase
  /\ \A d \in DatabaseNamesSeen : ClonesOf(events, d) <= 1
  /\ MasterDatabase \notin conns

C29_CacheStep ==
  /\ conns \subseteq conns'
  /\ \A d \in DatabaseNamesSeen :
       ClonesOf(events', d) - (IF run' = run THEN ClonesOf(events, d) ELSE 0)
         = IF d \in conns' \ conns THEN 1 ELSE 0

C29_ConnectionRouting == []C29_Routing /\ [][C29_CacheStep]_vars

\* A second run has dispatched a statement on a database other than the
\* master's over the connection a previous run cloned.
C29_Witness ==
  /\ run = 2
  /\ \E k \in DOMAIN events :
       /\ events[k].kind = "dispatch"
       /\ events[k].db # MasterDatabase
       /\ events[k].db \in conns
       /\ ClonesOf(events, events[k].db) = 0

(***************************************************************************)
(* Declarations of default privileges: register calls, in any order, for a *)
(* group, a user, a database, a schema, table privileges and the default   *)
(* privileges on them, with a group and with a user as the grantor.        *)
(***************************************************************************)
SelectFor(grantee, present) ==
  SchemaTablesPrivilege("sales", "private", grantee, {"select"}, present)

DefaultUniverse ==
  {Group("devops", TRUE), User("peter", {}, TRUE), User("peter", {}, FALSE),
   Database("sales", None, TRUE), Schema("sales", "private", None, TRUE),
   SelectFor("devops", TRUE), SelectFor("peter", FALSE),
   DefaultPrivilege(SelectFor("devops", TRUE), "devops", TRUE),
   DefaultPrivilege(SelectFor("devops", TRUE), "peter", TRUE),
   DefaultPrivilege(SelectFor("peter", FALSE), "peter", FALSE),
   DefaultPrivilege(SelectFor("peter", FALSE), "public", FALSE)}

RegisterDefault == \E decl \in DefaultUniverse : Register(decl)

NextDefault == RegisterDefault

SpecDefault == Init /\ [][NextDefault]_vars

\* The registered roles of the given name.
RegisteredRoles(reg, name) ==
  {o \in Range(reg) : o.type \in {"Group", "User"} /\ o.name = name}

\* What the statement asks of the registry before the call.
ReadyForDefaultPrivilege(reg, decl) ==
  /\ decl.type = "DefaultPrivilege"
  /\ ~Contains(reg, Key(decl))
  /\ Contains(reg, TargetKey(decl))
  /\ RegisteredRoles(reg, decl.grantor) # {}
  /\ decl.present =>
       /\ Get(reg, TargetKey(decl)).present
       /\ \A r \in RegisteredRoles(reg, decl.grantor) : r.present

\* C30 as stated: a Setup.default_privilege call succeeds whenever the target
\* SchemaTablesPrivilege is registered and the grantor is a registered Group or
\* User (and, for a present default privilege, both are present).
C30_DefaultPrivilegeRegisters ==
  [][(attempt' # attempt /\ ReadyForDefaultPrivilege(registry, attempt'.decl)) =>
       (attempt'.error = None /\ Contains(registry', Key(attempt'.decl)))]_vars

\* A default privilege whose grantor is registered as a User, and only so, was
\* offered with its target registered, and was refused.
C30_Witness ==
  /\ attempt.decl.type = "DefaultPrivilege"
  /\ attempt.error # None
  /\ ~Contains(registry, Key(attempt.decl))
  /\ ReadyForDefaultPrivilege(registry, attempt.decl)
  /\ \A r \in RegisteredRoles(registry, attempt.decl.grantor) : r.type = "User"

(***************************************************************************)
(* C31 as stated: every registered DatabasePrivilege has a non-empty       *)
(* privilege set, because constructing one from an empty or missing        *)
(* privileges value fails.                                                 *)
(***************************************************************************)
C31_PrivilegesNonEmpty ==
  /\ \A i \in DOMAIN registry :
       registry[i].type = "DatabasePrivilege" => registry[i].privileges # {}
  /\ (attempt.decl.type = "DatabasePrivilege" /\ attempt.decl.privileges = {}) =>
       attempt.error # None

\* A DatabasePrivilege declared without privileges was constructed and
\* registered without an error.
C31_Witness ==
  /\ attempt.decl.type = "DatabasePrivilege"
  /\ attempt.decl.privileges = {}
  /\ attempt.error = None
  /\ \E i \in DOMAIN registry :
       registry[i].type = "DatabasePrivilege" /\ registry[i].privileges = {}

(***************************************************************************)
(* C32 as stated: for every registry that register calls can produce,      *)
(* generate_graph adds every edge to a vertex already in the graph, some   *)
(* vertex has no dependency, and no run of the sort ends in an error.      *)
(***************************************************************************)
C32_GraphAlwaysSorts ==
  LET g == GenerateGraph(registry)
  IN /\ g.error = None
     /\ \E k \in VertexKeys(g) : DependenciesOf(g.edges, k) = {}
     /\ \A r \in TopologicalSortByKahn(g) : r.error = None

\* A database was registered with an owner that was a User then, and a Group
\* of the same name was registered after it: the owner link now resolves to
\* the Group, whose vertex is not in the graph when the link's edge is added.
C32_Witness ==
  /\ GenerateGraph(registry).error = "KeyError"
  /\ \E i, j, k \in DOMAIN registry :
       /\ i < j /\ j < k
       /\ registry[i].type = "User"
       /\ registry[j].type = "Database" /\ registry[j].owner = registry[i].name
       /\ registry[k].type = "Group" /\ registry[k].name = registry[i].name

(***************************************************************************)
(* C33.  In a run that is not a dry run, a statement is dispatched on a    *)
(* database d other than the master's (because it is routed to d or        *)
(* expanded onto d from ALL_DATABASES) only when d was observed at load    *)
(* time or CREATE DATABASE d was dispatched earlier in the run, and never  *)
(* after DROP DATABASE d was dispatched.                                   *)
(***************************************************************************)
\* The dispatches of the CREATE (DROP) DATABASE d statement.
DatabaseDispatches(kind, d) ==
  {k \in DOMAIN events :
     /\ events[k].kind = "dispatch"
     /\ stmts[events[k].stmt].kind = kind
     /\ stmts[events[k].stmt].obj = DatabaseKey(d)}

C33_DispatchOnExistingDatabase ==
  (run > 0 /\ ~dry_run) =>
    \A k \in DOMAIN events :
      (events[k].kind = "dispatch" /\ events[k].db # MasterDatabase) =>
        LET d == events[k].db
        IN /\ \/ d \in DatabaseNames(state)
              \/ \E j \in DatabaseDispatches("Create", d) : j < k
           /\ \A j \in DatabaseDispatches("Drop", d) : k < j
           /\ d \in ManagedDatabases(registry)

\* A run has dispatched a statement on a database it created itself, and,
\* after it dropped a database, a statement expanded from ALL_DATABASES.
C33_Witness ==
  /\ run > 0 /\ ~dry_run
  /\ \E k \in DOMAIN events :
       /\ events[k].kind = "dispatch" /\ events[k].db # MasterDatabase
       /\ events[k].db \notin DatabaseNames(state)
       /\ \E j \in DatabaseDispatches("Create", events[k].db) : j < k
  /\ \E d \in ManagedDatabases(registry) : \E j \in DatabaseDispatches("Drop", d) :
       \E k \in DOMAIN events :
         /\ j < k /\ events[k].kind = "dispatch" /\ events[k].db # MasterDatabase
         /\ IsOnAllDatabases(stmts[events[k].stmt])

(***************************************************************************)
(* C34: the assertion on the members of a transaction never fails.  Every  *)
(* transaction the generator emitted has members that all carry the        *)
(* transaction's own database tag; every member of a dispatched            *)
(* transaction is untagged or tagged with the database of the connection   *)
(* it was dispatched on; and no run has raised AssertionError.             *)
(***************************************************************************)
TransactionDispatches ==
  {k \in DOMAIN events :
     events[k].kind = "dispatch" /\ stmts[events[k].stmt].kind = "Transaction"}

C35_Contributions ==
  run > 0 =>
    \A o \in Vertices :
      /\ ~(StmtsOf(Key(o), {"create", "update"}) # {} /\ StmtsOf(Key(o), {"drop"}) # {})
      /\ ~o.present => StmtsOf(Key(o), {"create", "update", "maintain"}) = {}
      /\ o.present => StmtsOf(Key(o), {"drop"}) = {}

C35_ClassificationStep ==
  /\ run' = run + 1 =>
       \A o \in Vertices :
         GetCurrentState(state', o) = GetCurrentState(LoadServerState(cluster, registry), o)
  /\ (pc = "dispatch" /\ run' = run) =>
       \A o \in Vertices : GetCurrentState(state', o) = GetCurrentState(state, o)

C35_OneClassificationPerRun == []C35_Contributions /\ [][C35_ClassificationStep]_vars

\* A run whose classifications added a key to the snapshot has create
\* statements of an object declared present, maintain statements of an object
\* declared present and drop statements of an object declared absent.
C35_Witness ==
  /\ run > 0
  /\ \/ \E g \in state.group_users_keys : \A m \in state.group_users : m[1] # g
     \/ \E k \in state.stp_keys :
          \A x \in state.schema_tables_privileges : <<x[1], x[2], x[3], x[4]>> # k
  /\ \E o \in Vertices : o.present /\ StmtsOf(Key(o), {"create", "update"}) # {}
  /\ \E o \in Vertices : o.present /\ StmtsOf(Key(o), {"maintain"}) # {}
  /\ \E o \in Vertices : ~o.present /\ StmtsOf(Key(o), {"drop"}) # {}


====
